---------------------------- MODULE Spec2Model ----------------------------
(***************************************************************************)
(* Infinitus front-end: the route tree, the layout shell, the pages and    *)
(* the documented component / data patterns, as state machines.            *)
(*                                                                         *)
(* The module holds several independent sub-systems.  Each has its own     *)
(* variables, its own Init/Next and its own specification; a specification *)
(* leaves the variables of the other sub-systems at their idle value:      *)
(*   Spec      the application shell: router, lazy page, sidebar, render   *)
(*   FairSpec  Spec with the fairness of the render loop                   *)
(*   SpecCn    the class-name helper cn()                                  *)
(*   SpecAvatar  the user avatar of the header and its dropdown menu       *)
(*   SpecQuery   the user queries, the query cache and the update mutation *)
(*   SpecCard    the compound Card, in its core and its controllable form  *)
(*   SpecForm    the asynchronous submission of a form                     *)
(*   SpecGuard  the authentication guard of the '/_auth' layout route      *)
(*   SpecSync  skill metadata and the Auto-invoke tables of AGENTS.md      *)
(*   SpecTdd   the TDD workflow of the tdd skill                           *)
(*   SpecCounter  the counter of App                                       *)
(*   SpecKeys  the key factory                                             *)
(*   SpecFetcher  the raw fetcher                                          *)
(*   SpecMq    useMediaQuery                                               *)
(*   SpecUsers  the search params of /users                                *)
(*   SpecSteps  the multi-step form                                        *)
(*   SpecLogo  HeaderCompanyLogo                                           *)
(*   SpecGrp   nested calls of cn                                          *)
(***************************************************************************)
EXTENDS Integers, Sequences, FiniteSets, TLC

VARIABLES
    location,   \* router: the matched route path
    chunk,      \* import('../pages/dashboard-page'): idle, pending, resolved, rejected
    visited,    \* history: the set of route paths matched so far
    sidebar,    \* SidebarProvider state: "expanded" or "collapsed"
    screen,     \* the committed render output (what the user sees)
    event,      \* the last event handled
    matchSuspense,  \* router: whether it wraps a route match in a Suspense of its own
    cnCall,     \* cn(): the call site and the argument list
    cnOut,      \* cn(): the returned class list, once called
    avatarProps,    \* HeaderUserAvatar: the props src and name
    avatarView,     \* HeaderUserAvatar: what the last render returned
    avatarMenu,     \* HeaderUserAvatar: the dropdown (open, last item selected)
    qServer,        \* the users held by the API server
    qCache,         \* QueryClient: the query cache, by query key
    qMutation,      \* useMutation: the state of the updateUser mutation
    cardProps,      \* Card: where the sub-components are mounted, and the props
    cardState,      \* Card: the useState cell and its queued updaters
    cardView,       \* Card: what the last render returned
    cardCalls,      \* Card: the arguments onExpandedChange was called with
    formState,      \* useForm: the field values and formState.errors
    formSubmit,     \* onSubmit: which pattern, where the call stands, its data
    formLog,        \* the calls made by onSubmit so far, in order
    guardContext,   \* the router context: context.auth
    guardPending,   \* the href of the navigation being loaded, or ""
    guardLocation,  \* the committed location: pathname and search.redirect
    guardRendered,  \* the committed matches: the AuthLayout and the page
    guardLoad,      \* the last load: the href requested, the context read, what was thrown
    skillMeta,      \* skills/*/SKILL.md: metadata.scope and metadata.auto_invoke of every skill
    agentsTables,   \* the Auto-invoke rows (action, skill) of every AGENTS.md
    syncDirty,      \* the scopes whose skills changed since the tables were last generated
    tddPhase,       \* the phase of the workflow
    tddSuite,       \* the tests of the code worked on: file, missing cases, passing, failing
    tddCode,        \* the production code of the behaviour: none, fake or real; refactor steps
    tddRun,         \* the outcome of the last test run: none, failed or passed
    tddEvent,       \* the last step taken
    tddCycles,      \* the behaviours completed
    counterState,   \* App: the useState cell of count and its queued updaters
    counterView,    \* App: the text of the button, as last rendered
    counterClicks,  \* the clicks on the button so far
    kCache,         \* the query cache the key factory is checked on: key to data and isInvalidated
    kEvent,         \* the last call on the query client: the operation and its query key
    fetchCalls,     \* the calls of fetchUser so far: the id, the request, the response and how the promise settled
    mqEnv,          \* window.matchMedia(query).matches of every media query, as the environment has it
    mqListeners,    \* the number of change listeners on the MediaQueryList of every query
    mqHook,         \* useMediaQuery: mounted, the query rendered with, the state matches, the value returned, the effect
    mqEvent,        \* the last step of the hook or of the environment
    usersUrl,       \* /users: the search of the URL as parsed, before validation
    usersSearch,    \* /users: the outcome of validateSearch, what Route.useSearch() returns
    usersEvent,     \* /users: the last step, a navigation or a click on Next page
    stepState,      \* multi-step form: the useState cell of step and the values queued by setStep
    stepView,       \* multi-step form: the step of the last render, which handleNextStep closes over
    stepValid,      \* multi-step form: whether the fields of each step are valid now
    stepCalls,      \* the calls of handleNextStep: the step and fields captured, pending or the result of trigger
    logoProps,      \* HeaderCompanyLogo: the props src, alt, className and the other props of the caller
    logoView,       \* HeaderCompanyLogo: the element the last render returned
    grpArgs,        \* cn(): two class lists a and b, as strings of classes
    grpOut          \* cn(): cn(a, b), cn(cn(a, b)) and cn(cn(a), b), once evaluated

appVars == <<location, chunk, visited, sidebar, screen, event, matchSuspense>>

cnVars == <<cnCall, cnOut>>

avatarVars == <<avatarProps, avatarView, avatarMenu>>

queryVars == <<qServer, qCache, qMutation>>

cardVars == <<cardProps, cardState, cardView, cardCalls>>

formVars == <<formState, formSubmit, formLog>>

guardVars == <<guardContext, guardPending, guardLocation, guardRendered, guardLoad>>

syncVars == <<skillMeta, agentsTables, syncDirty>>

tddVars == <<tddPhase, tddSuite, tddCode, tddRun, tddEvent, tddCycles>>

counterVars == <<counterState, counterView, counterClicks>>

keysVars == <<kCache, kEvent>>

fetcherVars == <<fetchCalls>>

mqVars == <<mqEnv, mqListeners, mqHook, mqEvent>>

usersVars == <<usersUrl, usersSearch, usersEvent>>

stepsVars == <<stepState, stepView, stepValid, stepCalls>>

logoVars == <<logoProps, logoView>>

grpVars == <<grpArgs, grpOut>>

vars == <<appVars, cnVars, avatarVars, queryVars, cardVars, formVars, guardVars, syncVars, tddVars, counterVars, keysVars, fetcherVars, mqVars, usersVars, stepsVars, logoVars, grpVars>>

\* What an action of one sub-system leaves alone.
notAppVars == <<cnVars, avatarVars, queryVars, cardVars, formVars, guardVars, syncVars, tddVars, counterVars, keysVars, fetcherVars, mqVars, usersVars, stepsVars, logoVars, grpVars>>

notCnVars == <<appVars, avatarVars, queryVars, cardVars, formVars, guardVars, syncVars, tddVars, counterVars, keysVars, fetcherVars, mqVars, usersVars, stepsVars, logoVars, grpVars>>

notAvatarVars == <<appVars, cnVars, queryVars, cardVars, formVars, guardVars, syncVars, tddVars, counterVars, keysVars, fetcherVars, mqVars, usersVars, stepsVars, logoVars, grpVars>>

notQueryVars == <<appVars, cnVars, avatarVars, cardVars, formVars, guardVars, syncVars, tddVars, counterVars, keysVars, fetcherVars, mqVars, usersVars, stepsVars, logoVars, grpVars>>

notCardVars == <<appVars, cnVars, avatarVars, queryVars, formVars, guardVars, syncVars, tddVars, counterVars, keysVars, fetcherVars, mqVars, usersVars, stepsVars, logoVars, grpVars>>

notFormVars == <<appVars, cnVars, avatarVars, queryVars, cardVars, guardVars, syncVars, tddVars, counterVars, keysVars, fetcherVars, mqVars, usersVars, stepsVars, logoVars, grpVars>>

notGuardVars == <<appVars, cnVars, avatarVars, queryVars, cardVars, formVars, syncVars, tddVars, counterVars, keysVars, fetcherVars, mqVars, usersVars, stepsVars, logoVars, grpVars>>

notSyncVars == <<appVars, cnVars, avatarVars, queryVars, cardVars, formVars, guardVars, tddVars, counterVars, keysVars, fetcherVars, mqVars, usersVars, stepsVars, logoVars, grpVars>>

notTddVars == <<appVars, cnVars, avatarVars, queryVars, cardVars, formVars, guardVars, syncVars, counterVars, keysVars, fetcherVars, mqVars, usersVars, stepsVars, logoVars, grpVars>>

notCounterVars == <<appVars, cnVars, avatarVars, queryVars, cardVars, formVars, guardVars, syncVars, tddVars, keysVars, fetcherVars, mqVars, usersVars, stepsVars, logoVars, grpVars>>

notKeysVars == <<appVars, cnVars, avatarVars, queryVars, cardVars, formVars, guardVars, syncVars, tddVars, counterVars, fetcherVars, mqVars, usersVars, stepsVars, logoVars, grpVars>>

notFetcherVars == <<appVars, cnVars, avatarVars, queryVars, cardVars, formVars, guardVars, syncVars, tddVars, counterVars, keysVars, mqVars, usersVars, stepsVars, logoVars, grpVars>>

notMqVars == <<appVars, cnVars, avatarVars, queryVars, cardVars, formVars, guardVars, syncVars, tddVars, counterVars, keysVars, fetcherVars, usersVars, stepsVars, logoVars, grpVars>>

notUsersVars == <<appVars, cnVars, avatarVars, queryVars, cardVars, formVars, guardVars, syncVars, tddVars, counterVars, keysVars, fetcherVars, mqVars, stepsVars, logoVars, grpVars>>

notStepsVars == <<appVars, cnVars, avatarVars, queryVars, cardVars, formVars, guardVars, syncVars, tddVars, counterVars, keysVars, fetcherVars, mqVars, usersVars, logoVars, grpVars>>

notLogoVars == <<appVars, cnVars, avatarVars, queryVars, cardVars, formVars, guardVars, syncVars, tddVars, counterVars, keysVars, fetcherVars, mqVars, usersVars, stepsVars, grpVars>>

notGrpVars == <<appVars, cnVars, avatarVars, queryVars, cardVars, formVars, guardVars, syncVars, tddVars, counterVars, keysVars, fetcherVars, mqVars, usersVars, stepsVars, logoVars>>

---------------------------------------------------------------------------
(* Route tree                                                              *)

\* src/routes/index.tsx ("/") and src/routes/dashboard.tsx ("/dashboard"),
\* both children of the root route.
Routes == {"/", "/dashboard"}

\* Mutation of LoadRoute: the page module is imported whatever the route.
LoadRoute_Eager(path, c) == IF c = "idle" THEN "pending" ELSE c

\* createFileRoute('/dashboard')({ component: lazyRouteComponent(...) }):
\* the import is started when the route is matched and the module has not
\* been requested yet; it is requested once.
LoadRoute(path, c) ==
    IF path = "/dashboard" /\ c = "idle" THEN "pending" ELSE c

---------------------------------------------------------------------------
(* Pages                                                                   *)

\* Mutation of stats: the last entry repeats the label of the first.
stats_DuplicateLabel ==
    << [label |-> "Total Scans", value |-> "128", description |-> "All-time assessments"],
       [label |-> "Critical Findings", value |-> "14", description |-> "Requires immediate action"],
       [label |-> "Providers Connected", value |-> "5", description |-> "AWS, Azure, GCP, K8s, GitHub"],
       [label |-> "Total Scans", value |-> "2h ago", description |-> "Most recent assessment"] >>

\* DashboardPage: the static stats array, in source order.
stats ==
    << [label |-> "Total Scans", value |-> "128", description |-> "All-time assessments"],
       [label |-> "Critical Findings", value |-> "14", description |-> "Requires immediate action"],
       [label |-> "Providers Connected", value |-> "5", description |-> "AWS, Azure, GCP, K8s, GitHub"],
       [label |-> "Last Scan", value |-> "2h ago", description |-> "Most recent assessment"] >>

NoCards == <<>>

\* What DashboardPage() returns: one card per entry of stats, keyed by the
\* label, then the "Recent Findings" panel.
DashboardPage ==
    [ component |-> "DashboardPage",
      cards |-> [i \in DOMAIN stats |->
                    [key |-> stats[i].label, label |-> stats[i].label,
                     value |-> stats[i].value, description |-> stats[i].description]],
      panel |-> "No recent findings to display." ]

\* The page of the index route; its file is not part of the sources at hand.
IndexPage == [component |-> "IndexPage", cards |-> NoCards, panel |-> ""]

NoContent(what) == [component |-> what, cards |-> NoCards, panel |-> ""]

---------------------------------------------------------------------------
(* Sidebar                                                                 *)

\* const navItems: NavItem[] = [{ label: 'Home', to: '/', Icon: HomeIcon }]
navItems == << [label |-> "Home", to |-> "/", Icon |-> "HomeIcon"] >>

\* Mutation of SidebarMenu: the link target is not the entry's `to`.
SidebarMenu_WrongTarget(items) ==
    [i \in DOMAIN items |->
        [key |-> items[i].to, tooltip |-> items[i].label,
         to |-> "/dashboard", label |-> items[i].label]]

\* navItems.map(({label, to, Icon}) => <SidebarMenuItem key={to}> ... <Link to={to}>)
SidebarMenu(items) ==
    [i \in DOMAIN items |->
        [key |-> items[i].to, tooltip |-> items[i].label,
         to |-> items[i].to, label |-> items[i].label]]

\* Mutation of AppSidebar: the icon does not follow the state.
AppSidebar_FixedIcon(state) ==
    LET isExpanded == state = "expanded"
    IN  [ justify |-> IF isExpanded THEN "justify-end" ELSE "justify-center",
          icon |-> "ChevronDoubleLeftIcon",
          menu |-> SidebarMenu(navItems) ]

\* AppSidebar(): const isExpanded = state === 'expanded'
AppSidebar(state) ==
    LET isExpanded == state = "expanded"
    IN  [ justify |-> IF isExpanded THEN "justify-end" ELSE "justify-center",
          icon |-> IF isExpanded THEN "ChevronDoubleLeftIcon" ELSE "ChevronDoubleRightIcon",
          menu |-> SidebarMenu(navItems) ]

---------------------------------------------------------------------------
(* Component tree                                                          *)

\* function RootLayout() { return <Suspense><AppLayout /></Suspense> }
RootLayout(n) ==
    CASE n = "RootLayout" -> <<"Suspense">>
      [] n = "Suspense" -> <<"AppLayout">>
      [] OTHER -> <<>>

\* Mutation of AppLayout: the sidebar is not rendered.
AppLayout_NoSidebar(n) ==
    CASE n = "AppLayout" -> <<"Header", "SidebarProvider">>
      [] n = "Header" -> <<"HeaderSection.1", "HeaderSection.2">>
      [] n = "HeaderSection.1" -> <<"HeaderBrand">>
      [] n = "HeaderSection.2" -> <<"HeaderUserAvatar">>
      [] n = "SidebarProvider" -> <<"main">>
      [] n = "main" -> <<"Outlet">>
      [] OTHER -> <<>>

\* function AppLayout(): Header [brand section, avatar section], then
\* SidebarProvider [AppSidebar, main [Outlet]].
AppLayout(n) ==
    CASE n = "AppLayout" -> <<"Header", "SidebarProvider">>
      [] n = "Header" -> <<"HeaderSection.1", "HeaderSection.2">>
      [] n = "HeaderSection.1" -> <<"HeaderBrand">>
      [] n = "HeaderSection.2" -> <<"HeaderUserAvatar">>
      [] n = "SidebarProvider" -> <<"AppSidebar", "main">>
      [] n = "main" -> <<"Outlet">>
      [] OTHER -> <<>>

\* What the router puts around the repository's components: the root match
\* is rendered inside the router's error boundary, and the root route's
\* <Outlet /> renders the child match inside an error boundary of the
\* router and, when the router is given a pending component (createRouter
\* is not part of the sources), inside a Suspense; without one
\* "Outlet.Suspense" is a fragment.
RouterTree(n) ==
    CASE n = "RouterProvider" -> <<"Router.CatchBoundary">>
      [] n = "Router.CatchBoundary" -> <<"RootLayout">>
      [] n = "Outlet" -> <<"Outlet.Suspense">>
      [] n = "Outlet.Suspense" -> <<"Match.CatchBoundary">>
      [] n = "Match.CatchBoundary" -> <<"Page">>
      [] OTHER -> <<>>

Children(n) == RootLayout(n) \o AppLayout(n) \o RouterTree(n)

Nodes ==
    {"RouterProvider", "Router.CatchBoundary", "RootLayout", "Suspense", "AppLayout",
     "Header", "HeaderSection.1", "HeaderSection.2", "HeaderBrand", "HeaderUserAvatar",
     "SidebarProvider", "AppSidebar", "main", "Outlet", "Outlet.Suspense",
     "Match.CatchBoundary", "Page"}

\* The nodes written in this repository (the others are the router's).
RepoNodes ==
    {"RootLayout", "Suspense", "AppLayout", "Header", "HeaderSection.1",
     "HeaderSection.2", "HeaderBrand", "HeaderUserAvatar", "SidebarProvider",
     "AppSidebar", "main", "Outlet", "Page"}

Range(s) == {s[i] : i \in DOMAIN s}

\* Mutation of BoundaryKind: RootLayout wraps AppLayout in an error boundary.
BoundaryKind_RootCatches(n) ==
    CASE n \in {"Outlet.Suspense"} -> "suspense"
      [] n \in {"Suspense", "Router.CatchBoundary", "Match.CatchBoundary"} -> "catch"
      [] OTHER -> "none"

\* "suspense": catches a suspended render; "catch": catches a thrown error.
\* The only boundary of the repository is RootLayout's <Suspense>.
BoundaryKind(n) ==
    CASE n \in {"Suspense", "Outlet.Suspense"} -> "suspense"
      [] n \in {"Router.CatchBoundary", "Match.CatchBoundary"} -> "catch"
      [] OTHER -> "none"

RECURSIVE Descendants(_)
Descendants(n) ==
    LET kids == Range(Children(n))
    IN  kids \cup UNION {Descendants(k) : k \in kids}

Mounted == {"RouterProvider"} \cup Descendants("RouterProvider")

Parent(n) == CHOOSE p \in Mounted : n \in Range(Children(p))

RECURSIVE NearestBoundary(_, _)
\* The nearest ancestor of n that is a boundary of the given kind.
NearestBoundary(n, kind) ==
    IF n \notin Mounted THEN "none"
    ELSE IF n = "RouterProvider" THEN "RouterProvider"
    ELSE LET p == Parent(n)
         IN  IF BoundaryKind(p) = kind THEN p ELSE NearestBoundary(p, kind)

---------------------------------------------------------------------------
(* Rendering                                                               *)

NoSidebar == [justify |-> "", icon |-> "", menu |-> <<>>]

\* The components whose render may throw: the page in the outlet and the
\* two components of the shell that call into libraries.
ThrowSites == {"Page", "AppSidebar", "HeaderUserAvatar"}

\* What the outlet's match gives for a route: the page, "pending" while the
\* lazy module is being imported, "error" when the import was rejected.
OutletContent(loc, ch) ==
    IF loc = "/dashboard"
    THEN CASE ch = "resolved" -> DashboardPage
           [] ch = "rejected" -> NoContent("error")
           [] OTHER -> NoContent("pending")
    ELSE IndexPage

\* One render pass of the whole tree.  thrower is the component whose render
\* throws an error in this pass ("none": no component does, apart from the
\* page of a rejected import).  A thrown error unmounts the subtree of the
\* nearest error boundary, a suspended page hides the subtree of the nearest
\* Suspense boundary.
View(loc, ch, sb, thrower, wrapped) ==
    LET out     == OutletContent(loc, ch)
        failing == IF thrower # "none" THEN thrower
                   ELSE IF out.component = "error" THEN "Page" ELSE "none"
        catcher == IF failing = "none" THEN "none"
                   ELSE NearestBoundary(failing, "catch")
        waiter  == IF failing = "none" /\ out.component = "pending"
                   THEN IF wrapped THEN NearestBoundary("Page", "suspense")
                        ELSE NearestBoundary("Outlet.Suspense", "suspense")
                   ELSE "none"
        hidden  == (IF catcher = "none" THEN {} ELSE Descendants(catcher))
                     \cup (IF waiter = "none" THEN {} ELSE Descendants(waiter))
        visible == Mounted \ hidden
    IN  [ visible  |-> visible,
          content  |-> IF "Page" \in visible THEN out
                       ELSE IF failing # "none" THEN NoContent("error")
                       ELSE NoContent("pending"),
          caughtBy |-> catcher,
          fallback |-> waiter,
          sidebar  |-> IF "AppSidebar" \in visible THEN AppSidebar(sb) ELSE NoSidebar ]

ChunkStates == {"idle", "pending", "resolved", "rejected"}

SidebarStates == {"expanded", "collapsed"}

\* View, tabulated over its arguments.
Rendered ==
    [loc \in Routes, ch \in ChunkStates, sb \in SidebarStates,
     thrower \in {"none"} \cup ThrowSites, wrapped \in BOOLEAN |->
        View(loc, ch, sb, thrower, wrapped)]

Unrendered ==
    [ visible |-> {}, content |-> NoContent("none"), caughtBy |-> "none",
      fallback |-> "none", sidebar |-> NoSidebar ]

Event(kind, arg) == [kind |-> kind, arg |-> arg]

---------------------------------------------------------------------------
(* The application shell: Init and the actions                             *)

InitApp ==
    /\ location \in Routes
    /\ chunk = LoadRoute(location, "idle")
    /\ visited = {location}
    /\ sidebar \in SidebarStates
    /\ screen = Unrendered
    /\ event = Event("init", "")
    /\ matchSuspense \in BOOLEAN

\* The router matches a path: the route's lazy component is loaded.
Navigate(to) ==
    /\ location' = to
    /\ chunk' = LoadRoute(to, chunk)
    /\ visited' = visited \cup {to}

\* The user activates the i-th item of the rendered sidebar menu: <Link to={to}>.
Link(i) ==
    /\ "AppSidebar" \in screen.visible
    /\ i \in DOMAIN screen.sidebar.menu
    /\ Navigate(screen.sidebar.menu[i].to)
    /\ event' = Event("link", screen.sidebar.menu[i].key)
    /\ UNCHANGED <<sidebar, screen, matchSuspense>>
    /\ UNCHANGED notAppVars

\* The URL changes from outside the page (address bar, history).
Url(path) ==
    /\ path \in Routes
    /\ Navigate(path)
    /\ event' = Event("url", path)
    /\ UNCHANGED <<sidebar, screen, matchSuspense>>
    /\ UNCHANGED notAppVars

\* Mutation of ToggleSidebar: the toggle also goes to the index route.
ToggleSidebar_GoesHome(via) ==
    /\ "AppSidebar" \in screen.visible
    /\ sidebar' = IF sidebar = "expanded" THEN "collapsed" ELSE "expanded"
    /\ location' = "/"
    /\ event' = Event("toggle", via)
    /\ UNCHANGED <<chunk, visited, screen, matchSuspense>>
    /\ UNCHANGED notAppVars

\* SidebarTrigger or SidebarRail is activated.
ToggleSidebar(via) ==
    /\ "AppSidebar" \in screen.visible
    /\ sidebar' = IF sidebar = "expanded" THEN "collapsed" ELSE "expanded"
    /\ event' = Event("toggle", via)
    /\ UNCHANGED <<location, chunk, visited, screen, matchSuspense>>
    /\ UNCHANGED notAppVars

\* import('../pages/dashboard-page') settles.
ImportResolve ==
    /\ chunk = "pending"
    /\ chunk' = "resolved"
    /\ event' = Event("import", "resolved")
    /\ UNCHANGED <<location, visited, sidebar, screen, matchSuspense>>
    /\ UNCHANGED notAppVars

ImportReject ==
    /\ chunk = "pending"
    /\ chunk' = "rejected"
    /\ event' = Event("import", "rejected")
    /\ UNCHANGED <<location, visited, sidebar, screen, matchSuspense>>
    /\ UNCHANGED notAppVars

\* React commits a render of the current state.
Render ==
    /\ screen # Rendered[location, chunk, sidebar, "none", matchSuspense]
    /\ screen' = Rendered[location, chunk, sidebar, "none", matchSuspense]
    /\ event' = Event("render", "")
    /\ UNCHANGED <<location, chunk, visited, sidebar, matchSuspense>>
    /\ UNCHANGED notAppVars

\* A render pass in which the component at site throws.
RenderThrows(site) ==
    /\ site \in ThrowSites \cap Mounted
    /\ screen' = Rendered[location, chunk, sidebar, site, matchSuspense]
    /\ event' = Event("throw", site)
    /\ UNCHANGED <<location, chunk, visited, sidebar, matchSuspense>>
    /\ UNCHANGED notAppVars

NextApp ==
    \/ \E i \in 1..Len(navItems) : Link(i)
    \/ \E path \in Routes : Url(path)
    \/ \E via \in {"trigger", "rail"} : ToggleSidebar(via)
    \/ ImportResolve
    \/ ImportReject
    \/ Render
    \/ \E site \in ThrowSites : RenderThrows(site)

\* The shell before anything is matched (the other specifications keep it there).
IdleApp ==
    /\ location = "/"
    /\ chunk = "idle"
    /\ visited = {}
    /\ sidebar = "expanded"
    /\ screen = Unrendered
    /\ event = Event("idle", "")
    /\ matchSuspense = FALSE

---------------------------------------------------------------------------
(* cn(): class-name merging                                                *)

MaxArgs == 2

MaxClasses == 2

\* A ClassValue: a string (the list of its space-separated classes) or one
\* of the falsy values callers pass (an omitted className, `cond && 'x'`).
Str(classes) == [kind |-> "string", classes |-> classes]

Falsy(kind) == [kind |-> kind, classes |-> <<>>]

FalsyValues == {Falsy("undefined"), Falsy("false")}

\* className of the components of app-header and of AppSidebar.
ComponentDefault(site) ==
    CASE site = "Header" ->
            <<"flex", "h-14", "items-center", "justify-between", "border-b",
              "border-slate-200", "bg-white", "px-6", "dark:border-slate-800",
              "dark:bg-slate-950">>
      [] site = "HeaderSection" -> <<"flex", "items-center", "gap-3">>
      [] site = "HeaderBrand" ->
            <<"text-base", "font-semibold", "text-slate-900", "dark:text-white">>
      [] site = "HeaderDivider" -> <<"h-5", "w-px", "bg-slate-200", "dark:bg-slate-700">>
      [] site = "SidebarHeader" -> <<"flex">>

HeaderSites == {"Header", "HeaderSection", "HeaderBrand", "HeaderDivider"}

\* The classes a caller passes in the model.
CallerClasses ==
    {"px-2", "px-6", "p-4", "hidden", "dark:bg-black", "text-lg", "h-8", "custom"}

\* tailwind-merge's reading of a class: its variant and its conflict group
\* ("" for a class that is not a Tailwind class).
ClassInfo(c) ==
    CASE c \in {"flex", "hidden"} -> [variant |-> "", group |-> "display"]
      [] c \in {"h-14", "h-5", "h-7", "h-8"} -> [variant |-> "", group |-> "h"]
      [] c \in {"w-px", "w-7", "w-auto"} -> [variant |-> "", group |-> "w"]
      [] c = "items-center" -> [variant |-> "", group |-> "align-items"]
      [] c \in {"justify-between", "justify-end", "justify-center"} ->
            [variant |-> "", group |-> "justify-content"]
      [] c = "border-b" -> [variant |-> "", group |-> "border-w-b"]
      [] c = "border-slate-200" -> [variant |-> "", group |-> "border-color"]
      [] c = "dark:border-slate-800" -> [variant |-> "dark", group |-> "border-color"]
      [] c \in {"bg-white", "bg-slate-200"} -> [variant |-> "", group |-> "bg-color"]
      [] c \in {"dark:bg-slate-950", "dark:bg-slate-700", "dark:bg-black"} ->
            [variant |-> "dark", group |-> "bg-color"]
      [] c \in {"px-6", "px-2"} -> [variant |-> "", group |-> "px"]
      [] c = "p-4" -> [variant |-> "", group |-> "p"]
      [] c = "gap-3" -> [variant |-> "", group |-> "gap"]
      [] c = "overflow-hidden" -> [variant |-> "", group |-> "overflow"]
      [] c = "overflow-x-auto" -> [variant |-> "", group |-> "overflow-x"]
      [] c = "line-clamp-2" -> [variant |-> "", group |-> "line-clamp"]
      [] c \in {"text-base", "text-lg"} -> [variant |-> "", group |-> "font-size"]
      [] c = "font-semibold" -> [variant |-> "", group |-> "font-weight"]
      [] c = "text-slate-900" -> [variant |-> "", group |-> "text-color"]
      [] c = "dark:text-white" -> [variant |-> "dark", group |-> "text-color"]
      [] OTHER -> [variant |-> "", group |-> ""]

IsTailwind(c) == ClassInfo(c).group # ""

\* The groups a class of group g also removes when it comes later.
ConflictingGroups(g) ==
    CASE g = "p" -> {"px", "py"}
      [] g = "font-size" -> {"leading"}
      [] g = "overflow" -> {"overflow-x", "overflow-y"}
      [] g = "line-clamp" -> {"display", "overflow"}
      [] OTHER -> {}

RECURSIVE clsx(_)
\* clsx(...values): the truthy values, joined with a space.
clsx(values) ==
    IF values = <<>> THEN <<>>
    ELSE LET v == Head(values)
         IN  (IF v.kind = "string" THEN v.classes ELSE <<>>) \o clsx(Tail(values))

RECURSIVE MergeRight(_, _, _)
\* tailwind-merge reads the class list from the right: a Tailwind class is
\* dropped when a class to its right has claimed its (variant, group); a
\* kept class claims its group and the groups it conflicts with.
MergeRight(classes, i, seen) ==
    IF i = 0 THEN <<>>
    ELSE LET c == classes[i]
             info == ClassInfo(c)
             id == <<info.variant, info.group>>
         IN  IF ~IsTailwind(c) THEN MergeRight(classes, i - 1, seen) \o <<c>>
             ELSE IF id \in seen THEN MergeRight(classes, i - 1, seen)
             ELSE MergeRight(classes, i - 1,
                      seen \cup {id}
                        \cup {<<info.variant, g>> : g \in ConflictingGroups(info.group)})
                  \o <<c>>

twMerge(classes) == MergeRight(classes, Len(classes), {})

\* Mutation of cn: the class list of clsx is returned without merging.
cn_ClsxOnly(values) == clsx(values)

\* const cn = (...values: ClassValue[]) => twMerge(clsx(...values))
cn(values) == twMerge(clsx(values))

ClassLists(S, n) == UNION {[1..k -> S] : k \in 0..n}

StrValues(n) == {Str(cs) : cs \in ClassLists(CallerClasses, n)}

RECURSIVE ArgLists(_, _)
\* The argument lists of at most n values that hold at most b classes.
ArgLists(n, b) ==
    IF n = 0 THEN {<<>>}
    ELSE {<<>>} \cup
         UNION {{<<v>> \o r : r \in ArgLists(n - 1, b - Len(v.classes))} :
                    v \in FalsyValues \cup StrValues(b)}

\* className as a caller of a header component passes it.
ClassNames == FalsyValues \cup StrValues(MaxClasses)

\* The calls of cn: any argument list of at most n values and b classes,
\* and the calls the components make.
CnCalls(n, b) ==
    {[site |-> "general", args |-> a] : a \in ArgLists(n, b)}
      \cup {[site |-> s, args |-> <<Str(ComponentDefault(s)), v>>] :
                s \in HeaderSites, v \in ClassNames}
      \cup {[site |-> "SidebarHeader", args |-> <<Str(ComponentDefault("SidebarHeader")), Str(<<j>>)>>] :
                j \in {"justify-end", "justify-center"}}

NotCalled == [called |-> FALSE, value |-> <<>>]

IdleCn ==
    /\ cnCall = [site |-> "none", args |-> <<>>]
    /\ cnOut = NotCalled

InitCn ==
    /\ cnCall \in CnCalls(MaxArgs, MaxClasses)
    /\ cnOut = NotCalled

\* The component renders: className={cn(default, className)}.
CallCn ==
    /\ ~cnOut.called
    /\ cnOut' = [called |-> TRUE, value |-> cn(cnCall.args)]
    /\ UNCHANGED cnCall
    /\ UNCHANGED notCnVars

\* The parent renders the header component with another className.
SetClassName(v) ==
    /\ cnCall.site \in HeaderSites
    /\ cnOut.called
    /\ cnCall' = [cnCall EXCEPT !.args = <<Str(ComponentDefault(cnCall.site)), v>>]
    /\ cnOut' = NotCalled
    /\ UNCHANGED notCnVars

NextCn ==
    \/ CallCn
    \/ \E v \in FalsyValues \cup {Str(<<c>>) : c \in CallerClasses} : SetClassName(v)

---------------------------------------------------------------------------
(* HeaderUserAvatar                                                        *)

MaxNameLen == 2

\* A prop that was omitted, or a string prop.
Undefined == [kind |-> "undefined", value |-> <<>>]

Given(v) == [kind |-> "string", value |-> v]

\* Names are sequences of characters.
NameChars == {"a", "b", " "}

DefaultName == <<"U", "s", "e", "r">>

Upper(ch) ==
    CASE ch = "a" -> "A"
      [] ch = "b" -> "B"
      [] OTHER -> ch

RECURSIVE WordInitials(_, _)
\* The first character of every word of name (words are separated by " ").
WordInitials(name, atStart) ==
    IF name = <<>> THEN <<>>
    ELSE IF Head(name) = " " THEN WordInitials(Tail(name), TRUE)
    ELSE (IF atStart THEN <<Upper(Head(name))>> ELSE <<>>)
            \o WordInitials(Tail(name), FALSE)

\* getInitials(name), from '@/utils/get-initials': the upper-cased initials
\* of the first two words.
getInitials(name) ==
    LET all == WordInitials(name, TRUE)
    IN  IF Len(all) <= 2 THEN all ELSE SubSeq(all, 1, 2)

\* `User menu for ${name}`
UserMenuLabel(name) ==
    <<"U", "s", "e", "r", " ", "m", "e", "n", "u", " ", "f", "o", "r", " ">> \o name

Img(src, alt) == [tag |-> "img", src |-> src, alt |-> alt, text |-> <<>>]

InitialsBadge(text) == [tag |-> "div", src |-> <<>>, alt |-> <<>>, text |-> text]

\* Mutation of HeaderUserAvatar: the image is chosen whenever src is given,
\* the empty string included.
HeaderUserAvatar_SrcDefined(props) ==
    LET name == IF props.name.kind = "undefined" THEN DefaultName ELSE props.name.value
    IN  [ rendered |-> TRUE,
          ariaLabel |-> UserMenuLabel(name),
          children |-> IF props.src.kind # "undefined"
                       THEN <<Img(props.src.value, name)>>
                       ELSE <<InitialsBadge(getInitials(name))>>,
          items |-> <<"Profile", "Settings", "Sign out">> ]

\* function HeaderUserAvatar({ src, name = 'User', className })
HeaderUserAvatar(props) ==
    LET name == IF props.name.kind = "undefined" THEN DefaultName ELSE props.name.value
        initials == getInitials(name)
    IN  [ rendered |-> TRUE,
          ariaLabel |-> UserMenuLabel(name),
          children |-> IF props.src.kind = "string" /\ props.src.value # <<>>
                       THEN <<Img(props.src.value, name)>>
                       ELSE <<InitialsBadge(initials)>>,
          items |-> <<"Profile", "Settings", "Sign out">> ]

NoAvatar == [rendered |-> FALSE, ariaLabel |-> <<>>, children |-> <<>>, items |-> <<>>]

Names == UNION {[1..k -> NameChars] : k \in 0..MaxNameLen}

\* src: omitted, the empty string, or a URL.
Srcs == {Undefined, Given(<<>>), Given(<<"/", "a", ".", "p", "n", "g">>)}

AvatarPropsSet == [src : Srcs, name : {Undefined} \cup {Given(n) : n \in Names}]

MenuClosed == [open |-> FALSE, selected |-> ""]

IdleAvatar ==
    /\ avatarProps = [src |-> Undefined, name |-> Undefined]
    /\ avatarView = NoAvatar
    /\ avatarMenu = MenuClosed

InitAvatar ==
    /\ avatarProps \in AvatarPropsSet
    /\ avatarView = NoAvatar
    /\ avatarMenu = MenuClosed

RenderAvatar ==
    /\ ~avatarView.rendered
    /\ avatarView' = HeaderUserAvatar(avatarProps)
    /\ UNCHANGED <<avatarProps, avatarMenu>>
    /\ UNCHANGED notAvatarVars

\* The trigger button is activated: the dropdown opens.
OpenMenu ==
    /\ avatarView.rendered
    /\ ~avatarMenu.open
    /\ avatarMenu' = [avatarMenu EXCEPT !.open = TRUE]
    /\ UNCHANGED <<avatarProps, avatarView>>
    /\ UNCHANGED notAvatarVars

\* Mutation of SelectItem: 'Sign out' goes to the index route.
SelectItem_SignOutNavigates(i) ==
    /\ avatarMenu.open
    /\ i \in DOMAIN avatarView.items
    /\ avatarMenu' = [open |-> FALSE, selected |-> avatarView.items[i]]
    /\ location' = IF avatarView.items[i] = "Sign out" THEN "/" ELSE location
    /\ UNCHANGED <<avatarProps, avatarView>>
    /\ UNCHANGED <<chunk, visited, sidebar, screen, event, matchSuspense>>
    /\ UNCHANGED <<cnVars, queryVars, cardVars, formVars, guardVars, syncVars, tddVars,
                   counterVars, keysVars, fetcherVars, mqVars, usersVars, stepsVars,
                   logoVars, grpVars>>

\* A DropdownMenuItem is selected; the items carry no handler, the
\* dropdown closes.
SelectItem(i) ==
    /\ avatarMenu.open
    /\ i \in DOMAIN avatarView.items
    /\ avatarMenu' = [open |-> FALSE, selected |-> avatarView.items[i]]
    /\ UNCHANGED <<avatarProps, avatarView>>
    /\ UNCHANGED notAvatarVars

\* The dropdown is dismissed without a selection.
DismissMenu ==
    /\ avatarMenu.open
    /\ avatarMenu' = [avatarMenu EXCEPT !.open = FALSE]
    /\ UNCHANGED <<avatarProps, avatarView>>
    /\ UNCHANGED notAvatarVars

NextAvatar ==
    \/ RenderAvatar
    \/ OpenMenu
    \/ \E i \in 1..3 : SelectItem(i)
    \/ DismissMenu

---------------------------------------------------------------------------
(* User queries and the updateUser mutation                                *)

UserIds == {"u1", "u2"}

UserNames == {"n1", "n2"}

UserFilters == {"active"}

\* Arguments the key factory is applied to: the filters and ids the
\* application queries, and values that spell a segment of another key.
FilterValues == UserFilters \cup {"inactive", "detail"}

IdValues == UserIds \cup {"list"}

User(id, name) == [id |-> id, name |-> name]

IsPrefix(p, k) == Len(p) <= Len(k) /\ SubSeq(k, 1, Len(p)) = p

\* Mutation of userKeys: detail keys are built on lists().
userKeys_DetailUnderLists ==
    LET all == <<"users">>
        lists == all \o <<"list">>
        details == all \o <<"detail">>
    IN  [ all |-> all,
          lists |-> lists,
          list |-> [filters \in FilterValues |-> lists \o <<filters>>],
          details |-> details,
          detail |-> [id \in IdValues |-> lists \o <<id>>] ]

\* The key factory. all, lists and details take no argument; list and
\* detail are functions of the filters and of the id.
userKeys ==
    LET all == <<"users">>
        lists == all \o <<"list">>
        details == all \o <<"detail">>
    IN  [ all |-> all,
          lists |-> lists,
          list |-> [filters \in FilterValues |-> lists \o <<filters>>],
          details |-> details,
          detail |-> [id \in IdValues |-> details \o <<id>>] ]

\* queryOptions objects: the query key of each user query.
userQueries ==
    [ list |-> [filters \in UserFilters |-> [queryKey |-> userKeys.list[filters]]],
      detail |-> [id \in UserIds |-> [queryKey |-> userKeys.detail[id]]] ]

\* A query that is not a user query.
OrgKey == <<"orgs", "detail", "o1">>

\* The value of the property queryKey read from an array: undefined.
undefinedKey == <<>>

UserQueryKeys ==
    {userKeys.list[f] : f \in UserFilters} \cup {userKeys.detail[id] : id \in UserIds}

\* The two documented forms of the onSuccess handler.
HandlerForms == {"tanstack-5", "api-guide"}

\* The first argument of setQueryData in each form:
\*   tanstack-5   userKeys.detail(data.id).queryKey
\*   api-guide    userQueries.detail(data.id).queryKey
SetQueryDataKey(form, data) ==
    IF form = "tanstack-5" THEN undefinedKey
    ELSE userQueries.detail[data.id].queryKey

\* queryFn of each query: what the server answers.
queryFn(key, server) ==
    IF key \in {userKeys.detail[id] : id \in UserIds}
    THEN User(key[3], server[key[3]])
    ELSE IF key = OrgKey THEN User("o1", "org")
    ELSE {User(id, server[id]) : id \in UserIds}

\* queryClient.invalidateQueries({ queryKey: prefix })
invalidateQueries(cache, prefix) ==
    [k \in DOMAIN cache |->
        IF IsPrefix(prefix, k) THEN [cache[k] EXCEPT !.isInvalidated = TRUE]
        ELSE cache[k]]

\* queryClient.setQueryData(key, data)
setQueryData(cache, key, data) ==
    [k \in (DOMAIN cache) \cup {key} |->
        IF k = key THEN [data |-> data, isInvalidated |-> FALSE] ELSE cache[k]]

\* What setQueryData does when its key is undefined is the library's
\* business: the data is stored under the key undefined, or the call throws.
UndefinedKeyOutcomes == {"stored", "throws"}

\* onSuccess: (data) => { invalidateQueries(...); setQueryData(...) }
onSuccess(cache, form, data, outcome) ==
    LET invalidated == invalidateQueries(cache, userKeys.all)
        key == SetQueryDataKey(form, data)
    IN  IF key = undefinedKey /\ outcome = "throws" THEN invalidated
        ELSE setQueryData(invalidated, key, data)

NoUser == User("", "")

MutationIdle ==
    [status |-> "idle", form |-> "", payload |-> NoUser, data |-> NoUser]

EmptyCache == [k \in {} |-> [data |-> NoUser, isInvalidated |-> FALSE]]

IdleQuery ==
    /\ qServer = [id \in UserIds |-> "n1"]
    /\ qCache = EmptyCache
    /\ qMutation = MutationIdle

InitQuery ==
    /\ qServer = [id \in UserIds |-> "n1"]
    /\ qCache = EmptyCache
    /\ qMutation = MutationIdle

\* useQuery / prefetchQuery / the refetch of an invalidated query: the
\* query function runs and its result is stored.
Fetch(key) ==
    /\ key \in UserQueryKeys \cup {OrgKey}
    /\ IF key \in DOMAIN qCache THEN qCache[key].isInvalidated ELSE TRUE
    /\ qCache' = setQueryData(qCache, key, queryFn(key, qServer))
    /\ UNCHANGED <<qServer, qMutation>>
    /\ UNCHANGED notQueryVars

\* updateUser.mutate(payload)
Mutate(form, payload) ==
    /\ qMutation.status # "pending"
    /\ qMutation' = [status |-> "pending", form |-> form, payload |-> payload,
                     data |-> NoUser]
    /\ UNCHANGED <<qServer, qCache>>
    /\ UNCHANGED notQueryVars

\* patchUser resolves with the updated user; onSuccess runs.
PatchResolve(outcome) ==
    /\ qMutation.status = "pending"
    /\ LET data == qMutation.payload
       IN  /\ qServer' = [qServer EXCEPT ![data.id] = data.name]
           /\ qCache' = onSuccess(qCache, qMutation.form, data, outcome)
           /\ qMutation' = [qMutation EXCEPT !.status = "success", !.data = data]
    /\ UNCHANGED notQueryVars

\* patchUser rejects; onError shows a toast.
PatchReject ==
    /\ qMutation.status = "pending"
    /\ qMutation' = [qMutation EXCEPT !.status = "error"]
    /\ UNCHANGED <<qServer, qCache>>
    /\ UNCHANGED notQueryVars

NextQuery ==
    \/ \E key \in UserQueryKeys \cup {OrgKey} : Fetch(key)
    \/ \E form \in HandlerForms, id \in UserIds, name \in UserNames :
           Mutate(form, User(id, name))
    \/ \E outcome \in UndefinedKeyOutcomes : PatchResolve(outcome)
    \/ PatchReject

---------------------------------------------------------------------------
(* Compound Card                                                           *)

MaxPending == 2

MaxCalls == 3

MaxHeaderClicks == 4

\* createContext<CardContextValue | null>(null): the default value.
\* A context value is isExpanded and toggle; toggle is the closure of the
\* render that made it, kept here as what it captured.
NullContext ==
    [present |-> FALSE, isExpanded |-> FALSE, isControlled |-> FALSE, notifies |-> FALSE]

\* Mutation of useCard: the context is returned unchecked.
useCard_NoCheck(ctx) == [threw |-> FALSE, error |-> "", value |-> ctx]

\* function useCard()
useCard(ctx) ==
    IF ~ctx.present
    THEN [threw |-> TRUE, error |-> "useCard must be used within <Card>",
          value |-> NullContext]
    ELSE [threw |-> FALSE, error |-> "", value |-> ctx]

\* function Card (core pattern): the context value it provides.
Card(isExpanded) ==
    [present |-> TRUE, isExpanded |-> isExpanded, isControlled |-> FALSE,
     notifies |-> FALSE]

\* Mutation of CardControllable: isExpanded is the internal state even
\* when the prop expanded is given.
CardControllable_IgnoresProp(expanded, internalExpanded) ==
    [present |-> TRUE, isExpanded |-> internalExpanded,
     isControlled |-> expanded # "undefined", notifies |-> TRUE]

\* function Card (controlled vs uncontrolled): the context value it
\* provides. expanded is "undefined", "true" or "false".
CardControllable(expanded, internalExpanded) ==
    LET isControlled == expanded # "undefined"
        isExpanded == IF isControlled THEN expanded = "true" ELSE internalExpanded
    IN  [present |-> TRUE, isExpanded |-> isExpanded, isControlled |-> isControlled,
         notifies |-> TRUE]

\* function CardHeader: throws, or the div whose onClick is toggle.
CardHeader(ctx) ==
    LET r == useCard(ctx)
    IN  [threw |-> r.threw, error |-> r.error, element |-> ~r.threw, ctx |-> r.value]

\* Mutation of CardContent: the div is returned whatever isExpanded.
CardContent_NeverNull(ctx) ==
    LET r == useCard(ctx)
    IN  [threw |-> r.threw, error |-> r.error, element |-> ~r.threw, ctx |-> r.value]

\* function CardContent: throws, or null, or the div.
CardContent(ctx) ==
    LET r == useCard(ctx)
    IN  [threw |-> r.threw, error |-> r.error,
         element |-> ~r.threw /\ r.value.isExpanded, ctx |-> r.value]

NotRendered == [threw |-> FALSE, error |-> "", element |-> FALSE, ctx |-> NullContext]

NoCardView ==
    [rendered |-> FALSE, provided |-> NullContext, header |-> NotRendered,
     content |-> NotRendered]

\* The value of the useState cell once the queued updaters prev => !prev
\* have run.
Reduce(state) == IF state.pending % 2 = 1 THEN ~state.value ELSE state.value

\* One render of CardHeader and CardContent, inside Card or outside of it.
CardTree(props, isExpanded) ==
    LET provided == IF ~props.inCard THEN NullContext
                    ELSE IF props.form = "core" THEN Card(isExpanded)
                    ELSE CardControllable(props.expanded, isExpanded)
    IN  [rendered |-> TRUE, provided |-> provided, header |-> CardHeader(provided),
         content |-> CardContent(provided)]

CardPropsSet ==
    [inCard : BOOLEAN, form : {"core"}, expanded : {"undefined"}, defaultExpanded : {FALSE}]
        \cup [inCard : BOOLEAN, form : {"controllable"},
              expanded : {"undefined", "true", "false"}, defaultExpanded : BOOLEAN]

IdleCard ==
    /\ cardProps = [inCard |-> TRUE, form |-> "core", expanded |-> "undefined",
                    defaultExpanded |-> FALSE]
    /\ cardState = [value |-> FALSE, pending |-> 0, clicks |-> 0]
    /\ cardView = NoCardView
    /\ cardCalls = <<>>

\* useState(false) in the core form, useState(defaultExpanded) in the other.
InitCard ==
    /\ cardProps \in CardPropsSet
    /\ cardState = [value |-> cardProps.defaultExpanded, pending |-> 0, clicks |-> 0]
    /\ cardView = NoCardView
    /\ cardCalls = <<>>

\* React renders: the queued updaters run and the tree is rendered again.
RenderCard ==
    /\ cardState' = [cardState EXCEPT !.value = Reduce(cardState), !.pending = 0]
    /\ cardView' = CardTree(cardProps, Reduce(cardState))
    /\ cardState' # cardState \/ cardView' # cardView
    /\ UNCHANGED <<cardProps, cardCalls>>
    /\ UNCHANGED notCardVars

\* A click on the div of CardHeader: the toggle of the last render runs.
ClickHeader ==
    /\ cardView.header.element
    /\ cardState.pending < MaxPending
    /\ Len(cardCalls) < MaxCalls
    /\ cardState.clicks < MaxHeaderClicks
    /\ LET toggle == cardView.header.ctx
       IN  /\ cardState' = IF toggle.isControlled
                           THEN [cardState EXCEPT !.clicks = @ + 1]
                           ELSE [cardState EXCEPT !.pending = @ + 1, !.clicks = @ + 1]
           /\ cardCalls' = IF toggle.notifies
                           THEN Append(cardCalls, ~toggle.isExpanded)
                           ELSE cardCalls
    /\ UNCHANGED <<cardProps, cardView>>
    /\ UNCHANGED notCardVars

\* The parent renders Card with another value of the prop expanded: Card
\* runs with the new props, the queued updaters run first.
SetExpanded(expanded) ==
    /\ cardProps.form = "controllable"
    /\ cardView.rendered
    /\ cardProps.expanded # expanded
    /\ cardProps' = [cardProps EXCEPT !.expanded = expanded]
    /\ cardState' = [cardState EXCEPT !.value = Reduce(cardState), !.pending = 0]
    /\ cardView' = CardTree(cardProps', Reduce(cardState))
    /\ UNCHANGED cardCalls
    /\ UNCHANGED notCardVars

NextCard ==
    \/ RenderCard
    \/ ClickHeader
    \/ \E expanded \in {"undefined", "true", "false"} : SetExpanded(expanded)

---------------------------------------------------------------------------
(* Asynchronous form submission                                            *)

MaxSubmits == 2

\* The two onSubmit handlers: "tryCatch" (Async Submission with Error
\* Handling) and "plain" (Reset after async submit).
SubmitPatterns == {"tryCatch", "plain"}

Emails == {"", "a@x.io", "b@x.io"}

NoErrors == [email |-> "", root |-> ""]

DefaultValues == [email |-> ""]

\* form.reset(): the default values again, the errors cleared.
reset(form) == [values |-> DefaultValues, errors |-> NoErrors]

\* form.setError(name, { message })
setError(form, name, message) == [form EXCEPT !.errors[name] = message]

\* Mutation of onSubmit_catch: the form is reset when the call rejects.
onSubmit_catch_Resets(pattern, form) ==
    [ form |-> setError(setError(reset(form), "email", "This email is already taken"),
                        "root", "Something went wrong. Please try again."),
      calls |-> <<"reset", "setError email", "setError root">> ]

\* onSubmit after `await` rejected: the catch block of the tryCatch
\* pattern; the plain pattern has none and the rejection leaves onSubmit.
onSubmit_catch(pattern, form) ==
    IF pattern = "tryCatch"
    THEN [ form |-> setError(setError(form, "email", "This email is already taken"),
                             "root", "Something went wrong. Please try again."),
           calls |-> <<"setError email", "setError root">> ]
    ELSE [form |-> form, calls |-> <<>>]

\* onSubmit after `await` resolved: form.reset(), and the toast of the
\* tryCatch pattern.
onSubmit_then(pattern, form) ==
    IF pattern = "tryCatch"
    THEN [form |-> reset(form), calls |-> <<"reset", "toast.success">>]
    ELSE [form |-> reset(form), calls |-> <<"reset">>]

NoSubmit == [pattern |-> "tryCatch", pc |-> "idle", data |-> DefaultValues,
             last |-> "none", count |-> 0]

IdleForm ==
    /\ formState = [values |-> DefaultValues, errors |-> NoErrors]
    /\ formSubmit = NoSubmit
    /\ formLog = <<>>

InitForm ==
    /\ formState = [values |-> DefaultValues, errors |-> NoErrors]
    /\ formSubmit \in {[NoSubmit EXCEPT !.pattern = p] : p \in SubmitPatterns}
    /\ formLog = <<>>

\* The user types into the email field.
Edit(email) ==
    /\ formState.values.email # email
    /\ formState' = [formState EXCEPT !.values.email = email]
    /\ UNCHANGED <<formSubmit, formLog>>
    /\ UNCHANGED notFormVars

\* The form is submitted: onSubmit(data) runs up to its await.
Submit ==
    /\ formSubmit.pc = "idle"
    /\ formSubmit.count < MaxSubmits
    /\ formSubmit' = [formSubmit EXCEPT !.pc = "awaiting", !.data = formState.values,
                                        !.count = @ + 1]
    /\ formLog' = Append(formLog, "apiCall")
    /\ UNCHANGED formState
    /\ UNCHANGED notFormVars

\* The API call resolves: onSubmit continues after the await.
ApiResolve ==
    /\ formSubmit.pc = "awaiting"
    /\ LET r == onSubmit_then(formSubmit.pattern, formState)
       IN  /\ formState' = r.form
           /\ formLog' = formLog \o <<"resolved">> \o r.calls
    /\ formSubmit' = [formSubmit EXCEPT !.pc = "idle", !.last = "resolved"]
    /\ UNCHANGED notFormVars

\* The API call rejects.
ApiReject ==
    /\ formSubmit.pc = "awaiting"
    /\ LET r == onSubmit_catch(formSubmit.pattern, formState)
       IN  /\ formState' = r.form
           /\ formLog' = formLog \o <<"rejected">> \o r.calls
    /\ formSubmit' = [formSubmit EXCEPT !.pc = "idle", !.last = "rejected"]
    /\ UNCHANGED notFormVars

NextForm ==
    \/ \E email \in Emails : Edit(email)
    \/ Submit
    \/ ApiResolve
    \/ ApiReject

---------------------------------------------------------------------------
(* Authentication guard of the pathless '/_auth' layout route              *)

\* Hrefs of the routes inside src/routes/_auth/ (dashboard, settings) ...
ProtectedHrefs == {"/dashboard", "/settings", "/settings?tab=billing"}

\* ... and of the routes outside of it.
PublicHrefs == {"/", "/login", "/about"}

Hrefs == ProtectedHrefs \cup PublicHrefs

\* location.pathname of an href.
Pathname(href) == IF href = "/settings?tab=billing" THEN "/settings" ELSE href

\* context.auth: absent (createRouter({ context: { queryClient } })), or
\* present with isAuthenticated.
NoAuth == [hasAuth |-> FALSE, isAuthenticated |-> FALSE]

Auth(isAuthenticated) == [hasAuth |-> TRUE, isAuthenticated |-> isAuthenticated]

RouterContexts == {NoAuth, Auth(FALSE), Auth(TRUE)}

NoSearch == [redirect |-> ""]

\* What beforeLoad throws: nothing, a redirect, or the TypeError of reading
\* isAuthenticated of undefined.
Thrown(kind, to, search) == [kind |-> kind, to |-> to, search |-> search]

\* Mutation of beforeLoad: the redirect carries location.pathname.
beforeLoad_Pathname(context, href) ==
    IF ~context.hasAuth THEN Thrown("TypeError", "", NoSearch)
    ELSE IF ~context.isAuthenticated
         THEN Thrown("redirect", "/login", [redirect |-> Pathname(href)])
         ELSE Thrown("none", "", NoSearch)

\* beforeLoad: ({ context, location }) => { if (!context.auth.isAuthenticated)
\*     throw redirect({ to: '/login', search: { redirect: location.href } }) }
beforeLoad(context, href) ==
    IF ~context.hasAuth THEN Thrown("TypeError", "", NoSearch)
    ELSE IF ~context.isAuthenticated
         THEN Thrown("redirect", "/login", [redirect |-> href])
         ELSE Thrown("none", "", NoSearch)

\* The matches of an href: the '/_auth' layout route for the protected ones.
UnderAuth(href) == href \in ProtectedHrefs

Matches(layout, page) == [layout |-> layout, page |-> page]

NoLoad == [requested |-> "", context |-> NoAuth, thrown |-> "none"]

IdleGuard ==
    /\ guardContext = NoAuth
    /\ guardPending = ""
    /\ guardLocation = [pathname |-> "/", search |-> NoSearch]
    /\ guardRendered = Matches(FALSE, "/")
    /\ guardLoad = NoLoad

InitGuard ==
    /\ guardContext \in RouterContexts
    /\ guardPending = ""
    /\ guardLocation = [pathname |-> "/", search |-> NoSearch]
    /\ guardRendered = Matches(FALSE, "/")
    /\ guardLoad = NoLoad

\* A <Link> or navigate(): the router starts to load href; the committed
\* matches stay on screen meanwhile.
GuardNavigate(href) ==
    /\ guardPending = ""
    /\ guardPending' = href
    /\ UNCHANGED <<guardContext, guardLocation, guardRendered, guardLoad>>
    /\ UNCHANGED notGuardVars

\* The router loads the pending location: beforeLoad of '/_auth' runs when
\* the route is matched; a redirect is followed, an error is shown by the
\* error component, otherwise the matches are committed.
GuardLoad ==
    /\ guardPending # ""
    /\ LET href == guardPending
           t == IF UnderAuth(href) THEN beforeLoad(guardContext, href)
                ELSE Thrown("none", "", NoSearch)
       IN  /\ guardLoad' = [requested |-> href, context |-> guardContext,
                            thrown |-> t.kind]
           /\ guardLocation' =
                 IF t.kind = "redirect" THEN [pathname |-> t.to, search |-> t.search]
                 ELSE [pathname |-> Pathname(href), search |-> NoSearch]
           /\ guardRendered' =
                 CASE t.kind = "redirect" -> Matches(FALSE, t.to)
                   [] t.kind = "TypeError" -> Matches(FALSE, "errorComponent")
                   [] OTHER -> Matches(UnderAuth(href), Pathname(href))
    /\ guardPending' = ""
    /\ UNCHANGED guardContext
    /\ UNCHANGED notGuardVars

\* The application passes another context to the router (sign in, sign out).
SetContext(context) ==
    /\ context # guardContext
    /\ guardContext' = context
    /\ UNCHANGED <<guardPending, guardLocation, guardRendered, guardLoad>>
    /\ UNCHANGED notGuardVars

NextGuard ==
    \/ \E href \in Hrefs : GuardNavigate(href)
    \/ GuardLoad
    \/ \E context \in RouterContexts : SetContext(context)

---------------------------------------------------------------------------
(* Skill sync: skill metadata and the Auto-invoke tables of AGENTS.md      *)

Meta(scope, actions) == [scope |-> scope, auto_invoke |-> actions]

\* The front matter of the skills, as committed.  skill-creator and
\* skill-sync declare no scope.
CommittedMeta ==
    [ s \in {"compound-components", "no-barrel-files", "performance", "playwright",
             "react-compiler", "react-hook-form", "skill-creator", "skill-sync",
             "tanstack-router", "tdd", "tanstack-5"} |->
        CASE s = "compound-components" ->
               Meta({"frontend", "ui"},
                    {"Designing a reusable component with sub-parts, building a component with shared internal state, creating a component system"})
          [] s = "no-barrel-files" ->
               Meta({"frontend", "ui", "api"},
                    {"Creating index.ts, writing re-exports, importing from a folder path"})
          [] s = "performance" ->
               Meta({"frontend"},
                    {"Creating new pages or routes",
                     "Optimizing bundle size or build configuration",
                     "Adding virtualization to long lists or tables",
                     "Configuring Vite build",
                     "Optimizing frontend performance"})
          [] s = "playwright" ->
               Meta({"frontend", "test", "ui"}, {"Writing Playwright E2E tests"})
          [] s = "react-compiler" ->
               Meta({"frontend"},
                    {"Optimizing React components, enabling React Compiler, migrating manual memoization"})
          [] s = "react-hook-form" ->
               Meta({"frontend", "ui"},
                    {"Creating forms, using useForm, using FormField or FormControl, handling form submission, form validation, form with proqio-ui"})
          [] s = "skill-creator" -> Meta({}, {"Creating new skills"})
          [] s = "skill-sync" ->
               Meta({},
                    {"After creating/modifying a skill",
                     "Regenerate AGENTS.md Auto-invoke tables (sync.sh)",
                     "Troubleshoot why a skill is missing from AGENTS.md auto-invoke"})
          [] s = "tanstack-router" ->
               Meta({"frontend"},
                    {"Creating new pages or routes",
                     "Navigating between pages",
                     "Reading URL params or search params",
                     "Setting up routing",
                     "Using Link or useNavigate"})
          [] s = "tdd" ->
               Meta({"frontend", "ui", "api", "test"},
                    {"Implementing feature", "Fixing bug", "Refactoring code",
                     "Working on task", "Modifying component"})
          [] s = "tanstack-5" ->
               Meta({"frontend", "api"},
                    {"Fetching data from API", "Using useQuery or useMutation",
                     "Managing server state", "Creating API hooks or data fetching"}) ]

Skills == DOMAIN CommittedMeta

\* The AGENTS.md files and the scope each one stands for.
AgentsFiles == {"AGENTS.md", "src/components/AGENTS.md", "src/api/AGENTS.md"}

ScopeOf(file) ==
    CASE file = "AGENTS.md" -> "frontend"
      [] file = "src/components/AGENTS.md" -> "ui"
      [] file = "src/api/AGENTS.md" -> "api"

Scopes == {"frontend", "ui", "api", "test"}

Rows(skill, actions) == {<<a, skill>> : a \in actions}

\* The committed Auto-invoke tables: the rows that name a skill whose
\* SKILL.md is at hand (rows of other skills are left out).
CommittedTables ==
    [ f \in AgentsFiles |->
        CASE f = "AGENTS.md" ->
               Rows("performance",
                    {"Adding virtualization to long lists or tables",
                     "Configuring Vite build",
                     "Creating new pages or routes",
                     "Optimizing bundle size or build configuration",
                     "Optimizing frontend performance"})
               \cup Rows("tanstack-5",
                    {"Creating API hooks or data fetching", "Fetching data from API",
                     "Managing server state", "Using useQuery or useMutation"})
               \cup Rows("react-hook-form",
                    {"Creating forms, using useForm, using FormField or FormControl, handling form submission, form validation, form with proqio-ui"})
               \cup Rows("no-barrel-files",
                    {"Creating index.ts, writing re-exports, importing from a folder path"})
               \cup Rows("tanstack-router",
                    {"Creating new pages or routes", "Navigating between pages",
                     "Reading URL params or search params", "Setting up routing",
                     "Using Link or useNavigate"})
               \cup Rows("compound-components",
                    {"Designing a reusable component with sub-parts, building a component with shared internal state, creating a component system"})
               \cup Rows("tdd",
                    {"Fixing bug", "Implementing feature", "Modifying component",
                     "Refactoring code", "Working on task"})
               \cup Rows("react-compiler",
                    {"Optimizing React components, enabling React Compiler, migrating manual memoization"})
               \cup Rows("playwright", {"Writing Playwright E2E tests"})
          [] f = "src/components/AGENTS.md" ->
               Rows("tdd", {"Implementing or modifying component"})
          [] f = "src/api/AGENTS.md" ->
               Rows("tanstack-5", {"Creating or modifying any file in src/api/"})
               \cup Rows("tdd", {"Fixing bug", "Implementing feature", "Refactoring code"})
               \cup Rows("no-barrel-files",
                    {"Creating index.ts, writing re-exports, importing from a folder path"}) ]

\* sync.sh, steps 1 to 3: the table of a scope, one row per action of every
\* skill that declares the scope.
GenerateTable(meta, scope) ==
    UNION {Rows(s, meta[s].auto_invoke) : s \in {t \in DOMAIN meta : scope \in meta[t].scope}}

\* The edits of skill metadata that are followed: an action is added to or
\* removed from auto_invoke.
SkillEdits == {<<"playwright", "Writing tests">>, <<"tdd", "Modifying component">>}

IdleSync ==
    /\ skillMeta = CommittedMeta
    /\ agentsTables = CommittedTables
    /\ syncDirty = {}

InitSync ==
    /\ skillMeta = CommittedMeta
    /\ agentsTables = CommittedTables
    /\ syncDirty = {}

\* A skill is modified: an action is declared, or no longer declared.
EditSkill(skill, action) ==
    /\ skillMeta' = [skillMeta EXCEPT ![skill].auto_invoke =
                        IF action \in @ THEN @ \ {action} ELSE @ \cup {action}]
    /\ syncDirty' = syncDirty \cup skillMeta[skill].scope
    /\ UNCHANGED agentsTables
    /\ UNCHANGED notSyncVars

\* ./skills/skill-sync/assets/sync.sh [--scope s]: the Auto-invoke section
\* of every AGENTS.md of the chosen scopes is replaced by the generated table.
Sync(scopes) ==
    /\ agentsTables' = [f \in AgentsFiles |->
                           IF ScopeOf(f) \in scopes
                           THEN GenerateTable(skillMeta, ScopeOf(f))
                           ELSE agentsTables[f]]
    /\ syncDirty' = syncDirty \ scopes
    /\ agentsTables' # agentsTables \/ syncDirty' # syncDirty
    /\ UNCHANGED skillMeta
    /\ UNCHANGED notSyncVars

NextSync ==
    \/ \E e \in SkillEdits : EditSkill(e[1], e[2])
    \/ Sync(Scopes)
    \/ \E s \in Scopes : Sync({s})

---------------------------------------------------------------------------
(* TDD workflow                                                            *)

MaxTests == 3

MaxRefactors == 2

MaxCycles == 2

Phases == {"ASSESS", "RED", "GREEN", "TRIANGULATE", "REFACTOR"}

\* Mutation of DecisionTree: the assessment always proceeds to Phase 2.
DecisionTree_AlwaysProceed(fileExists, missingCases) == "GREEN"

\* Decision Tree (All Stacks): no test file -> create it, Phase 1; missing
\* cases -> add tests, Phase 1; otherwise proceed to Phase 2.
DecisionTree(fileExists, missingCases) ==
    IF ~fileExists THEN "RED"
    ELSE IF missingCases THEN "RED"
    ELSE "GREEN"

\* The Three Laws, 1: no production code until you have a failing test.
MayWriteCode(suite, run) == suite.failing > 0 /\ run = "failed"

Suite(fileExists, missing, passing, failing) ==
    [fileExists |-> fileExists, missing |-> missing, passing |-> passing,
     failing |-> failing]

\* What the assessment may find: no test file, or tests of which some may
\* fail, with or without the cases of the change.
AssessedSuites ==
    {Suite(FALSE, TRUE, 0, 0)}
        \cup {Suite(TRUE, m, p, f) : m \in BOOLEAN, p \in 0..1, f \in 0..1}

NoCode == [impl |-> "none", refactors |-> 0]

IdleTdd ==
    /\ tddPhase = "ASSESS"
    /\ tddSuite = Suite(FALSE, TRUE, 0, 0)
    /\ tddCode = NoCode
    /\ tddRun = "none"
    /\ tddEvent = "none"
    /\ tddCycles = 0

InitTdd ==
    /\ tddPhase = "ASSESS"
    /\ tddSuite \in AssessedSuites
    /\ tddCode \in {NoCode, [impl |-> "real", refactors |-> 0]}
    /\ tddRun = "none"
    /\ tddEvent = "none"
    /\ tddCycles = 0

\* Phase 0: find the tests, check the coverage (the tests run), decide.
Assess ==
    /\ tddPhase = "ASSESS"
    /\ tddPhase' = DecisionTree(tddSuite.fileExists, tddSuite.missing)
    /\ tddSuite' = [tddSuite EXCEPT !.fileExists = TRUE]
    /\ tddRun' = IF ~tddSuite.fileExists THEN "none"
                 ELSE IF tddSuite.failing > 0 THEN "failed" ELSE "passed"
    /\ tddEvent' = "assess"
    /\ UNCHANGED <<tddCode, tddCycles>>
    /\ UNCHANGED notTddVars

\* Phase 1: ONE failing test is written and run; it must fail.
WriteFailingTest ==
    /\ tddPhase = "RED"
    /\ tddSuite.passing + tddSuite.failing < MaxTests
    /\ tddSuite' = [tddSuite EXCEPT !.failing = @ + 1, !.missing = FALSE]
    /\ tddRun' = "failed"
    /\ tddPhase' = "GREEN"
    /\ tddEvent' = "write test"
    /\ UNCHANGED <<tddCode, tddCycles>>
    /\ UNCHANGED notTddVars

\* Phase 1, for refactoring: all the existing tests are run as a baseline
\* and should pass.
RunBaseline ==
    /\ tddPhase = "RED"
    /\ tddSuite.failing = 0
    /\ tddSuite.passing > 0
    /\ tddRun' = "passed"
    /\ tddSuite' = [tddSuite EXCEPT !.missing = FALSE]
    /\ tddPhase' = "GREEN"
    /\ tddEvent' = "run baseline"
    /\ UNCHANGED <<tddCode, tddCycles>>
    /\ UNCHANGED notTddVars

\* Phase 2: the minimum code that makes the failing tests pass; a
\* hardcoded value is valid for the first test.
WriteMinimumCode ==
    /\ tddPhase = "GREEN"
    /\ MayWriteCode(tddSuite, tddRun)
    /\ tddCode' = [tddCode EXCEPT !.impl = IF @ = "none" THEN "fake" ELSE @]
    /\ tddSuite' = [tddSuite EXCEPT !.passing = @ + tddSuite.failing, !.failing = 0]
    /\ tddRun' = "passed"
    /\ tddPhase' = "TRIANGULATE"
    /\ tddEvent' = "write code"
    /\ UNCHANGED tddCycles
    /\ UNCHANGED notTddVars

\* Phase 2 with nothing failing: no more code than necessary to pass.
NothingToWrite ==
    /\ tddPhase = "GREEN"
    /\ tddSuite.failing = 0
    /\ tddPhase' = "TRIANGULATE"
    /\ tddEvent' = "proceed"
    /\ UNCHANGED <<tddSuite, tddCode, tddRun, tddCycles>>
    /\ UNCHANGED notTddVars

\* Phase 3: a test with different inputs is added and run; it fails when
\* the code is a fake.
AddTriangulationTest ==
    /\ tddPhase = "TRIANGULATE"
    /\ tddSuite.failing = 0
    /\ tddSuite.passing + tddSuite.failing < MaxTests
    /\ IF tddCode.impl = "real"
       THEN /\ tddSuite' = [tddSuite EXCEPT !.passing = @ + 1]
            /\ tddRun' = "passed"
       ELSE /\ tddSuite' = [tddSuite EXCEPT !.failing = @ + 1]
            /\ tddRun' = "failed"
    /\ tddEvent' = "add test"
    /\ UNCHANGED <<tddPhase, tddCode, tddCycles>>
    /\ UNCHANGED notTddVars

\* Phase 3: the fake breaks, the real implementation is written.
WriteRealCode ==
    /\ tddPhase = "TRIANGULATE"
    /\ MayWriteCode(tddSuite, tddRun)
    /\ tddCode' = [tddCode EXCEPT !.impl = "real"]
    /\ tddSuite' = [tddSuite EXCEPT !.passing = @ + tddSuite.failing, !.failing = 0]
    /\ tddRun' = "passed"
    /\ tddEvent' = "write code"
    /\ UNCHANGED <<tddPhase, tddCycles>>
    /\ UNCHANGED notTddVars

\* Tests GREEN -> Phase 4.
StartRefactor ==
    /\ tddPhase = "TRIANGULATE"
    /\ tddSuite.failing = 0
    /\ tddRun = "passed"
    /\ tddPhase' = "REFACTOR"
    /\ tddEvent' = "start refactor"
    /\ UNCHANGED <<tddSuite, tddCode, tddRun, tddCycles>>
    /\ UNCHANGED notTddVars

\* Phase 4: one change, the tests are run after it and must stay green: a
\* change that breaks a test is not kept.
RefactorStep(kept) ==
    /\ tddPhase = "REFACTOR"
    /\ tddCode.refactors < MaxRefactors
    /\ tddCode' = IF kept THEN [tddCode EXCEPT !.refactors = @ + 1] ELSE tddCode
    /\ tddRun' = "passed"
    /\ tddEvent' = IF kept THEN "refactor" ELSE "revert"
    /\ tddEvent' # tddEvent \/ tddCode' # tddCode
    /\ UNCHANGED <<tddPhase, tddSuite, tddCycles>>
    /\ UNCHANGED notTddVars

\* REPEAT: the next behaviour, back to RED.
Repeat ==
    /\ tddPhase = "REFACTOR"
    /\ tddCycles < MaxCycles
    /\ tddCycles' = tddCycles + 1
    /\ tddPhase' = "RED"
    /\ tddSuite' = [tddSuite EXCEPT !.missing = TRUE]
    /\ tddCode' = [tddCode EXCEPT !.refactors = 0]
    /\ tddEvent' = "repeat"
    /\ UNCHANGED tddRun
    /\ UNCHANGED notTddVars

NextTdd ==
    \/ Assess
    \/ WriteFailingTest
    \/ RunBaseline
    \/ WriteMinimumCode
    \/ NothingToWrite
    \/ AddTriangulationTest
    \/ WriteRealCode
    \/ StartRefactor
    \/ \E kept \in BOOLEAN : RefactorStep(kept)
    \/ Repeat

---------------------------------------------------------------------------
(* App: the counter                                                        *)

MaxClicks == 14

\* An update queued by setCount: an updater function count => count + 1,
\* or a value.
Updater == [kind |-> "function", value |-> 0]

Value(v) == [kind |-> "value", value |-> v]

\* Mutation of onClick: setCount(count + 1), count being the rendered one.
onClick_RenderedCount(count) == Value(count + 1)

\* onClick={() => setCount((count) => count + 1)}
onClick(count) == Updater

RECURSIVE ApplyUpdates(_, _)
\* React runs the queued updates in order on the state.
ApplyUpdates(value, queue) ==
    IF queue = <<>> THEN value
    ELSE ApplyUpdates(IF Head(queue).kind = "function" THEN value + 1
                      ELSE Head(queue).value,
                      Tail(queue))

\* count is {count}
ButtonText(count) == <<"count is ", count>>

\* function App: useState(0), the button.  updates is the number of queued
\* updates the render ran.
App(count, updates) ==
    [rendered |-> TRUE, count |-> count, button |-> ButtonText(count),
     updates |-> updates]

NoApp == [rendered |-> FALSE, count |-> 0, button |-> <<>>, updates |-> 0]

IdleCounter ==
    /\ counterState = [value |-> 0, queue |-> <<>>]
    /\ counterView = NoApp
    /\ counterClicks = 0

InitCounter ==
    /\ counterState = [value |-> 0, queue |-> <<>>]
    /\ counterView = NoApp
    /\ counterClicks = 0

\* React renders App: the queued updates run, the button shows the count.
RenderApp ==
    /\ ~counterView.rendered \/ counterState.queue # <<>>
    /\ LET count == ApplyUpdates(counterState.value, counterState.queue)
       IN  /\ counterState' = [value |-> count, queue |-> <<>>]
           /\ counterView' = App(count, Len(counterState.queue))
    /\ UNCHANGED counterClicks
    /\ UNCHANGED notCounterVars

\* A click on the button: the handler of the last render runs.
ClickButton ==
    /\ counterView.rendered
    /\ counterClicks < MaxClicks
    /\ counterState' = [counterState EXCEPT
                           !.queue = Append(@, onClick(counterView.count))]
    /\ counterClicks' = counterClicks + 1
    /\ UNCHANGED counterView
    /\ UNCHANGED notCounterVars

NextCounter ==
    \/ RenderApp
    \/ ClickButton

---------------------------------------------------------------------------
(* The key factory and invalidation by key                                 *)

\* The keys of the queries the factory can name.
ListKeys == {userKeys.list[filters] : filters \in FilterValues}

DetailKeys == {userKeys.detail[id] : id \in IdValues}

\* Every key the factory produces.
FactoryKeys == {userKeys.all, userKeys.lists, userKeys.details} \cup ListKeys \cup DetailKeys

NoCall == [op |-> "none", queryKey |-> <<>>]

IdleKeys ==
    /\ kCache = EmptyCache
    /\ kEvent = NoCall

InitKeys ==
    /\ kCache = EmptyCache
    /\ kEvent = NoCall

\* useQuery(userQueries.list(filters)) or useQuery(userQueries.detail(id)):
\* the query is fetched, or fetched again once invalidated.
FetchQuery(key) ==
    /\ key \in ListKeys \cup DetailKeys
    /\ IF key \in DOMAIN kCache THEN kCache[key].isInvalidated ELSE TRUE
    /\ kCache' = setQueryData(kCache, key, User(key[3], "n1"))
    /\ kEvent' = [op |-> "fetch", queryKey |-> key]
    /\ UNCHANGED notKeysVars

\* queryClient.invalidateQueries({ queryKey }) with a key of the factory.
InvalidateByKey(queryKey) ==
    /\ queryKey \in FactoryKeys
    /\ kCache' = invalidateQueries(kCache, queryKey)
    /\ kEvent' = [op |-> "invalidateQueries", queryKey |-> queryKey]
    /\ UNCHANGED notKeysVars

NextKeys ==
    \/ \E key \in ListKeys \cup DetailKeys : FetchQuery(key)
    \/ \E queryKey \in FactoryKeys : InvalidateByKey(queryKey)

---------------------------------------------------------------------------
(* The raw fetcher fetchUser                                               *)

MaxFetches == 2

\* The status codes and bodies the server answers with.
Statuses == {200, 404, 500}

UserJson == "{\"id\":\"u1\",\"name\":\"n1\"}"

Bodies == {UserJson, "null", "<html>Bad Gateway</html>"}

Response(status, body) == [status |-> status, body |-> body]

NoResponse == Response(0, "")

\* Response.ok: the status is in the range 200-299.
ok(res) == res.status \in 200..299

NoValue == [kind |-> "none", id |-> "", name |-> ""]

\* How a promise stands: pending, fulfilled with a value, or rejected with
\* an error of a class and a message.
Pending == [state |-> "pending", value |-> NoValue, error |-> <<>>]

Fulfilled(value) == [state |-> "fulfilled", value |-> value, error |-> <<>>]

Rejected(class, message) ==
    [state |-> "rejected", value |-> NoValue, error |-> <<class, message>>]

\* res.json(): the body parsed as JSON, a rejection when it is not JSON.
json(res) ==
    IF res.body = UserJson
    THEN Fulfilled([kind |-> "object", id |-> "u1", name |-> "n1"])
    ELSE IF res.body = "null" THEN Fulfilled([kind |-> "null", id |-> "", name |-> ""])
    ELSE Rejected("SyntaxError", <<"Unexpected token '<'">>)

\* fetch(`/api/users/${id}`): the request.
RequestUrl(id) == <<"/api/users/", id>>

\* Mutation of fetchUser: the body is parsed whatever res.ok.
fetchUser_NoOkCheck(id, res) == json(res)

\* async function fetchUser(id), from the response on.
fetchUser(id, res) ==
    IF ~ok(res) THEN Rejected("Error", <<"Failed to fetch user ", id>>)
    ELSE json(res)

IdleFetcher ==
    /\ fetchCalls = <<>>

InitFetcher ==
    /\ fetchCalls = <<>>

\* fetchUser(id) is called: fetch is sent and awaited.
CallFetchUser(id) ==
    /\ Len(fetchCalls) < MaxFetches
    /\ fetchCalls' = Append(fetchCalls,
                            [id |-> id, url |-> RequestUrl(id), res |-> NoResponse,
                             promise |-> Pending])
    /\ UNCHANGED notFetcherVars

\* The response of call i arrives: fetchUser goes on after the await.
Respond(i, res) ==
    /\ i \in DOMAIN fetchCalls
    /\ fetchCalls[i].promise.state = "pending"
    /\ fetchCalls' = [fetchCalls EXCEPT
                         ![i].res = res,
                         ![i].promise = fetchUser(fetchCalls[i].id, res)]
    /\ UNCHANGED notFetcherVars

\* fetch of call i rejects (no response): the rejection is not caught.
NetworkError(i) ==
    /\ i \in DOMAIN fetchCalls
    /\ fetchCalls[i].promise.state = "pending"
    /\ fetchCalls' = [fetchCalls EXCEPT
                         ![i].promise = Rejected("TypeError", <<"Failed to fetch">>)]
    /\ UNCHANGED notFetcherVars

NextFetcher ==
    \/ \E id \in UserIds : CallFetchUser(id)
    \/ \E i \in 1..MaxFetches, status \in Statuses, body \in Bodies :
           Respond(i, Response(status, body))
    \/ \E i \in 1..MaxFetches : NetworkError(i)

---------------------------------------------------------------------------
(* useMediaQuery                                                           *)

MediaQueries == {"(max-width: 768px)", "(prefers-color-scheme: dark)"}

NoQuery == ""

\* media.addEventListener('change', listener)
addEventListener(listeners, media) == [listeners EXCEPT ![media] = @ + 1]

\* media.removeEventListener('change', listener), with the listener that
\* was added on media.
removeEventListener(listeners, media) ==
    [listeners EXCEPT ![media] = IF @ > 0 THEN @ - 1 ELSE 0]

\* Mutation of cleanup: the effect returns no cleanup function.
cleanup_None(listeners, media) == listeners

\* return () => media.removeEventListener('change', listener)
cleanup(listeners, media) == removeEventListener(listeners, media)

Total(listeners) ==
    listeners["(max-width: 768px)"] + listeners["(prefers-color-scheme: dark)"]

\* function useMediaQuery: the value a render returns, matches being the
\* state of the useState cell (its initializer runs in the first render
\* only).
useMediaQuery(query, matches, env) == matches

Unmounted ==
    [mounted |-> FALSE, query |-> NoQuery, matches |-> FALSE, returned |-> FALSE,
     dirty |-> FALSE, effect |-> NoQuery, phase |-> "idle", heard |-> "none",
     previous |-> NoQuery]

IdleMq ==
    /\ mqEnv = [q \in MediaQueries |-> FALSE]
    /\ mqListeners = [q \in MediaQueries |-> 0]
    /\ mqHook = Unmounted
    /\ mqEvent = "none"

InitMq ==
    /\ mqEnv \in [MediaQueries -> BOOLEAN]
    /\ mqListeners = [q \in MediaQueries |-> 0]
    /\ mqHook = Unmounted
    /\ mqEvent = "none"

\* The component using the hook mounts: first render, useState(() =>
\* window.matchMedia(query).matches); the effect is scheduled.
MountHook(query) ==
    /\ ~mqHook.mounted
    /\ mqHook' = [mounted |-> TRUE, query |-> query, matches |-> mqEnv[query],
                  returned |-> useMediaQuery(query, mqEnv[query], mqEnv),
                  dirty |-> FALSE, effect |-> NoQuery, phase |-> "pending",
                  heard |-> "none", previous |-> NoQuery]
    /\ mqEvent' = "mount"
    /\ UNCHANGED <<mqEnv, mqListeners>>
    /\ UNCHANGED notMqVars

\* The component renders with another query: the state is kept, the
\* dependency [query] changed and the effect is scheduled again.
ChangeQuery(query) ==
    /\ mqHook.mounted
    /\ mqHook.phase = "idle"
    /\ query # mqHook.query
    /\ mqHook' = [mqHook EXCEPT
                     !.query = query,
                     !.previous = mqHook.query,
                     !.returned = useMediaQuery(query, mqHook.matches, mqEnv),
                     !.dirty = FALSE,
                     !.phase = "pending"]
    /\ mqEvent' = "query"
    /\ UNCHANGED <<mqEnv, mqListeners>>
    /\ UNCHANGED notMqVars

\* The cleanup of the previous effect runs.
CleanupEffect ==
    /\ mqHook.mounted
    /\ mqHook.phase = "pending"
    /\ mqHook.effect # NoQuery
    /\ mqListeners' = cleanup(mqListeners, mqHook.effect)
    /\ mqHook' = [mqHook EXCEPT !.effect = NoQuery, !.phase = "cleaned"]
    /\ mqEvent' = "cleanup"
    /\ UNCHANGED mqEnv
    /\ UNCHANGED notMqVars

\* The effect runs: the listener is added on window.matchMedia(query).
SetupEffect ==
    /\ mqHook.mounted
    /\ \/ mqHook.phase = "cleaned"
       \/ mqHook.phase = "pending" /\ mqHook.effect = NoQuery
    /\ mqListeners' = addEventListener(mqListeners, mqHook.query)
    /\ mqHook' = [mqHook EXCEPT !.effect = mqHook.query, !.phase = "idle"]
    /\ mqEvent' = "effect"
    /\ UNCHANGED mqEnv
    /\ UNCHANGED notMqVars

\* The media query starts or stops matching: a change event is dispatched
\* on its MediaQueryList; the listener, if one is there, calls
\* setMatches(e.matches). Cleanup and setup of one commit run together, no
\* event comes between them.
MediaChange(query) ==
    /\ mqHook.phase # "cleaned"
    /\ mqEnv' = [mqEnv EXCEPT ![query] = ~@]
    /\ mqHook' = IF mqListeners[query] > 0
                 THEN [mqHook EXCEPT
                          !.matches = mqEnv'[query],
                          !.dirty = TRUE,
                          !.heard = IF mqEnv'[query] THEN "true" ELSE "false"]
                 ELSE mqHook
    /\ mqEvent' = "change"
    /\ UNCHANGED mqListeners
    /\ UNCHANGED notMqVars

\* React renders again after setMatches.
RenderHook ==
    /\ mqHook.mounted
    /\ mqHook.dirty
    /\ mqHook.phase = "idle"
    /\ mqHook' = [mqHook EXCEPT
                     !.returned = useMediaQuery(mqHook.query, mqHook.matches, mqEnv),
                     !.dirty = FALSE]
    /\ mqEvent' = "render"
    /\ UNCHANGED <<mqEnv, mqListeners>>
    /\ UNCHANGED notMqVars

\* The component unmounts: the cleanup of the effect runs if the effect ran.
UnmountHook ==
    /\ mqHook.mounted
    /\ mqHook.phase # "cleaned"
    /\ mqListeners' = IF mqHook.effect # NoQuery
                      THEN cleanup(mqListeners, mqHook.effect)
                      ELSE mqListeners
    /\ mqHook' = Unmounted
    /\ mqEvent' = "unmount"
    /\ UNCHANGED mqEnv
    /\ UNCHANGED notMqVars

NextMq ==
    \/ \E query \in MediaQueries : MountHook(query)
    \/ \E query \in MediaQueries : ChangeQuery(query)
    \/ CleanupEffect
    \/ SetupEffect
    \/ \E query \in MediaQueries : MediaChange(query)
    \/ RenderHook
    \/ UnmountHook

---------------------------------------------------------------------------
(* Search params of /users                                                 *)

MaxPage == 4

Absent == [kind |-> "absent", number |-> 0, text |-> ""]

\* Values a search param of the URL parses to. A number is an integer or
\* has a fraction (number is then its integer part); anything else is a
\* string.
Integer(n) == [kind |-> "integer", number |-> n, text |-> ""]

Fraction(n) == [kind |-> "fraction", number |-> n, text |-> ""]

String(s) == [kind |-> "string", number |-> 0, text |-> s]

RawPages ==
    {Absent, Fraction(1), String("abc")} \cup {Integer(n) : n \in -1..MaxPage}

RawQs == {Absent, String("bob"), String("ann"), Integer(7)}

RawStatuses == {Absent, String("active"), String("inactive"), String("archived"), Integer(1)}

RawSearches == [page : RawPages, q : RawQs, status : RawStatuses]

\* page: z.number().int().min(1).default(1)
Page(raw) ==
    IF raw = Absent THEN [success |-> TRUE, data |-> Integer(1)]
    ELSE IF raw.kind = "integer" /\ raw.number >= 1 THEN [success |-> TRUE, data |-> raw]
    ELSE [success |-> FALSE, data |-> Absent]

\* q: z.string().optional()
Q(raw) ==
    IF raw = Absent \/ raw.kind = "string" THEN [success |-> TRUE, data |-> raw]
    ELSE [success |-> FALSE, data |-> Absent]

\* status: z.enum(["active", "inactive"]).optional()
Status(raw) ==
    IF raw = Absent \/ raw \in {String("active"), String("inactive")}
    THEN [success |-> TRUE, data |-> raw]
    ELSE [success |-> FALSE, data |-> Absent]

EmptySearch == [page |-> Absent, q |-> Absent, status |-> Absent]

\* validateSearch: zodSearchValidator(searchSchema): the parsed object, or
\* the validation throws.
validateSearch(raw) ==
    LET page == Page(raw.page)
        q == Q(raw.q)
        status == Status(raw.status)
    IN  IF page.success /\ q.success /\ status.success
        THEN [success |-> TRUE,
              data |-> [page |-> page.data, q |-> q.data, status |-> status.data]]
        ELSE [success |-> FALSE, data |-> EmptySearch]

\* Mutation of the search of the link: { page: prev.page + 1 }.
NextPage_OnlyPage(prev) ==
    [page |-> Integer(prev.page.number + 1), q |-> Absent, status |-> Absent]

\* search={(prev) => ({ ...prev, page: prev.page + 1 })}
NextPage(prev) == [prev EXCEPT !.page = Integer(prev.page.number + 1)]

IdleUsers ==
    /\ usersUrl = EmptySearch
    /\ usersSearch = [success |-> FALSE, data |-> EmptySearch]
    /\ usersEvent = "none"

InitUsers ==
    /\ usersUrl = EmptySearch
    /\ usersSearch = [success |-> FALSE, data |-> EmptySearch]
    /\ usersEvent = "none"

\* The browser goes to /users with some search: validateSearch runs.
OpenUsers(raw) ==
    /\ raw \in RawSearches
    /\ usersUrl' = raw
    /\ usersSearch' = validateSearch(raw)
    /\ usersEvent' = "open"
    /\ UNCHANGED notUsersVars

\* A click on the link Next page of UserList: the search the link computes
\* becomes the search of the URL, validateSearch runs on it.
ClickNextPage ==
    /\ usersEvent # "none"
    /\ usersSearch.success
    /\ usersSearch.data.page.number < MaxPage
    /\ usersUrl' = NextPage(usersSearch.data)
    /\ usersSearch' = validateSearch(usersUrl')
    /\ usersEvent' = "next"
    /\ UNCHANGED notUsersVars

NextUsers ==
    \/ \E raw \in RawSearches : OpenUsers(raw)
    \/ ClickNextPage

---------------------------------------------------------------------------
(* Multi-step form                                                         *)

MaxStep == 3

MaxNextCalls == 3

Steps == 1..MaxStep

\* The state of the cell once the queued values are applied: the last
\* value set wins.
Current(state) ==
    IF state.queue = <<>> THEN state.value ELSE state.queue[Len(state.queue)]

\* await form.trigger(fieldsToValidate): whether the fields validate.
trigger(valid, fieldsToValidate) == valid[fieldsToValidate]

\* if (valid) setStep(step + 1), step being the one of the render that
\* made the call.
handleNextStep(state, step, valid) ==
    IF valid THEN [state EXCEPT !.queue = Append(@, step + 1)] ELSE state

IdleSteps ==
    /\ stepState = [value |-> 1, queue |-> <<>>]
    /\ stepView = 1
    /\ stepValid = [s \in Steps |-> FALSE]
    /\ stepCalls = <<>>

InitSteps ==
    /\ stepState = [value |-> 1, queue |-> <<>>]
    /\ stepView = 1
    /\ stepValid \in [Steps -> BOOLEAN]
    /\ stepCalls = <<>>

\* React renders: the queued values are applied.
RenderSteps ==
    /\ stepState.queue # <<>>
    /\ stepState' = [value |-> Current(stepState), queue |-> <<>>]
    /\ stepView' = Current(stepState)
    /\ UNCHANGED <<stepValid, stepCalls>>
    /\ UNCHANGED notStepsVars

\* The user edits a field of the step shown (mode onChange).
EditStepField ==
    /\ stepValid' = [stepValid EXCEPT ![stepView] = ~@]
    /\ UNCHANGED <<stepState, stepView, stepCalls>>
    /\ UNCHANGED notStepsVars

\* handleNextStep(fields of the step shown) is called: trigger is awaited.
CallNextStep ==
    /\ Len(stepCalls) < MaxNextCalls
    /\ stepView < MaxStep
    /\ stepCalls' = Append(stepCalls,
                           [step |-> stepView, fields |-> stepView,
                            status |-> "pending", valid |-> FALSE])
    /\ UNCHANGED <<stepState, stepView, stepValid>>
    /\ UNCHANGED notStepsVars

\* trigger of call i resolves: handleNextStep goes on after the await.
TriggerResolves(i) ==
    /\ i \in DOMAIN stepCalls
    /\ stepCalls[i].status = "pending"
    /\ LET valid == trigger(stepValid, stepCalls[i].fields)
       IN  /\ stepState' = handleNextStep(stepState, stepCalls[i].step, valid)
           /\ stepCalls' = [stepCalls EXCEPT ![i].status = "done", ![i].valid = valid]
    /\ UNCHANGED <<stepView, stepValid>>
    /\ UNCHANGED notStepsVars

NextSteps ==
    \/ RenderSteps
    \/ EditStepField
    \/ CallNextStep
    \/ \E i \in 1..MaxNextCalls : TriggerResolves(i)

---------------------------------------------------------------------------
(* HeaderCompanyLogo                                                       *)

\* The props a caller passes besides src, alt and className.
OtherProps == {"id", "title", "onClick"}

DefaultAlt == "Company logo"

\* className of the <img> and of the placeholder <div>.
LogoClasses(tag) ==
    IF tag = "img" THEN <<"h-7", "w-auto", "rounded", "object-contain">>
    ELSE <<"flex", "h-7", "w-7", "items-center", "justify-center", "rounded",
           "bg-slate-100", "dark:bg-slate-800">>

NoElement ==
    [tag |-> "none", src |-> "", alt |-> "", className |-> <<>>, props |-> {},
     children |-> <<>>]

\* The <svg> of the building, labelled with alt.
BuildingIcon(alt) == [tag |-> "svg", ariaLabel |-> alt]

\* function HeaderCompanyLogo({ src, alt = 'Company logo', className,
\* ...props }). src and alt are "undefined" when omitted; src may be "".
HeaderCompanyLogo(props) ==
    LET alt == IF props.alt = "undefined" THEN DefaultAlt ELSE props.alt
    IN  IF props.src \notin {"undefined", ""}
        THEN [tag |-> "img", src |-> props.src, alt |-> alt,
              className |-> cn(<<Str(LogoClasses("img")), props.className>>),
              props |-> props.rest, children |-> <<>>]
        ELSE [tag |-> "div", src |-> "", alt |-> "",
              className |-> cn(<<Str(LogoClasses("div")), props.className>>),
              props |-> {}, children |-> <<BuildingIcon(alt)>>]

LogoPropsSet ==
    [src : {"undefined", "", "/logo.svg"},
     alt : {"undefined", "Acme"},
     className : {Falsy("undefined"), Str(<<"h-8">>)},
     rest : SUBSET OtherProps]

IdleLogo ==
    /\ logoProps = [src |-> "undefined", alt |-> "undefined",
                    className |-> Falsy("undefined"), rest |-> {}]
    /\ logoView = NoElement

InitLogo ==
    /\ logoProps \in LogoPropsSet
    /\ logoView = NoElement

\* The logo is rendered with its props.
RenderLogo ==
    /\ logoView # HeaderCompanyLogo(logoProps)
    /\ logoView' = HeaderCompanyLogo(logoProps)
    /\ UNCHANGED logoProps
    /\ UNCHANGED notLogoVars

\* The caller passes another src (the logo is loaded, or removed): the
\* component renders with it.
SetLogoSrc(src) ==
    /\ logoView # NoElement
    /\ src # logoProps.src
    /\ logoProps' = [logoProps EXCEPT !.src = src]
    /\ logoView' = HeaderCompanyLogo(logoProps')
    /\ UNCHANGED notLogoVars

NextLogo ==
    \/ RenderLogo
    \/ \E src \in {"undefined", "", "/logo.svg"} : SetLogoSrc(src)

---------------------------------------------------------------------------
(* cn(): nested calls                                                      *)

MaxLeft == 2

MaxRight == 1

\* The classes of the two lists.
GroupedClasses ==
    {"overflow-x-auto", "overflow-hidden", "line-clamp-2", "px-2", "p-4", "custom"}

\* What the three expressions evaluate to. The string cn returns is passed
\* on as one ClassValue.
Nested(a, b) ==
    [ evaluated |-> TRUE,
      flat   |-> cn(<<Str(a), Str(b)>>),
      again  |-> cn(<<Str(cn(<<Str(a), Str(b)>>))>>),
      nested |-> cn(<<Str(cn(<<Str(a)>>)), Str(b)>>) ]

NotEvaluated == [evaluated |-> FALSE, flat |-> <<>>, again |-> <<>>, nested |-> <<>>]

IdleGrp ==
    /\ grpArgs = [a |-> <<>>, b |-> <<>>]
    /\ grpOut = NotEvaluated

InitGrp ==
    /\ grpArgs \in [a : ClassLists(GroupedClasses, MaxLeft),
                    b : ClassLists(GroupedClasses, MaxRight)]
    /\ grpOut = NotEvaluated

\* cn(a, b), cn(cn(a, b)) and cn(cn(a), b) are evaluated.
EvalNested ==
    /\ ~grpOut.evaluated
    /\ grpOut' = Nested(grpArgs.a, grpArgs.b)
    /\ UNCHANGED grpArgs
    /\ UNCHANGED notGrpVars

\* The caller passes another className as b.
SetRight(b) ==
    /\ grpOut.evaluated
    /\ b # grpArgs.b
    /\ grpArgs' = [grpArgs EXCEPT !.b = b]
    /\ grpOut' = NotEvaluated
    /\ UNCHANGED notGrpVars

NextGrp ==
    \/ EvalNested
    \/ \E b \in ClassLists(GroupedClasses, MaxRight) : SetRight(b)

---------------------------------------------------------------------------
(* Specifications                                                          *)

\* The application shell.
Init == InitApp /\ IdleCn /\ IdleAvatar /\ IdleQuery /\ IdleCard /\ IdleForm /\ IdleGuard /\ IdleSync /\ IdleTdd /\ IdleCounter /\ IdleKeys /\ IdleFetcher /\ IdleMq /\ IdleUsers /\ IdleSteps /\ IdleLogo /\ IdleGrp

Next == NextApp

Spec == Init /\ [][Next]_vars

\* The render loop commits a pending render.
FairSpec == Spec /\ WF_vars(Render)

\* cn() applied to bounded argument lists and at the call sites of the header.
InitCnSpec == InitCn /\ IdleApp /\ IdleAvatar /\ IdleQuery /\ IdleCard /\ IdleForm /\ IdleGuard /\ IdleSync /\ IdleTdd /\ IdleCounter /\ IdleKeys /\ IdleFetcher /\ IdleMq /\ IdleUsers /\ IdleSteps /\ IdleLogo /\ IdleGrp

SpecCn == InitCnSpec /\ [][NextCn]_vars

\* HeaderUserAvatar rendered with bounded props, and its dropdown.
InitAvatarSpec == InitAvatar /\ IdleApp /\ IdleCn /\ IdleQuery /\ IdleCard /\ IdleForm /\ IdleGuard /\ IdleSync /\ IdleTdd /\ IdleCounter /\ IdleKeys /\ IdleFetcher /\ IdleMq /\ IdleUsers /\ IdleSteps /\ IdleLogo /\ IdleGrp

SpecAvatar == InitAvatarSpec /\ [][NextAvatar]_vars

\* The application shell with the dropdown of the avatar in its header:
\* <HeaderUserAvatar /> as AppLayout renders it, or with src and name.
InitShellAvatar ==
    /\ avatarProps \in [src : Srcs, name : {Undefined, Given(<<"a">>)}]
    /\ avatarView = NoAvatar
    /\ avatarMenu = MenuClosed

InitShellAvatarSpec == InitApp /\ InitShellAvatar /\ IdleCn /\ IdleQuery /\ IdleCard /\ IdleForm /\ IdleGuard /\ IdleSync /\ IdleTdd /\ IdleCounter /\ IdleKeys /\ IdleFetcher /\ IdleMq /\ IdleUsers /\ IdleSteps /\ IdleLogo /\ IdleGrp

NextShellAvatar ==
    \/ NextApp
    \/ NextAvatar

SpecShellAvatar == InitShellAvatarSpec /\ [][NextShellAvatar]_vars

\* The query cache under fetches and updateUser mutations.
InitQuerySpec == InitQuery /\ IdleApp /\ IdleCn /\ IdleAvatar /\ IdleCard /\ IdleForm /\ IdleGuard /\ IdleSync /\ IdleTdd /\ IdleCounter /\ IdleKeys /\ IdleFetcher /\ IdleMq /\ IdleUsers /\ IdleSteps /\ IdleLogo /\ IdleGrp

SpecQuery == InitQuerySpec /\ [][NextQuery]_vars

\* CardHeader and CardContent, inside or outside a Card.
InitCardSpec == InitCard /\ IdleApp /\ IdleCn /\ IdleAvatar /\ IdleQuery /\ IdleForm /\ IdleGuard /\ IdleSync /\ IdleTdd /\ IdleCounter /\ IdleKeys /\ IdleFetcher /\ IdleMq /\ IdleUsers /\ IdleSteps /\ IdleLogo /\ IdleGrp

SpecCard == InitCardSpec /\ [][NextCard]_vars

\* A form edited and submitted, the API call resolving or rejecting.
InitFormSpec == InitForm /\ IdleApp /\ IdleCn /\ IdleAvatar /\ IdleQuery /\ IdleCard /\ IdleGuard /\ IdleSync /\ IdleTdd /\ IdleCounter /\ IdleKeys /\ IdleFetcher /\ IdleMq /\ IdleUsers /\ IdleSteps /\ IdleLogo /\ IdleGrp

SpecForm == InitFormSpec /\ [][NextForm]_vars

\* Navigations through the guard of '/_auth', the context changing.
InitGuardSpec == InitGuard /\ IdleApp /\ IdleCn /\ IdleAvatar /\ IdleQuery /\ IdleCard /\ IdleForm /\ IdleSync /\ IdleTdd /\ IdleCounter /\ IdleKeys /\ IdleFetcher /\ IdleMq /\ IdleUsers /\ IdleSteps /\ IdleLogo /\ IdleGrp

SpecGuard == InitGuardSpec /\ [][NextGuard]_vars

\* Skills edited and sync.sh run, from the committed files.
InitSyncSpec == InitSync /\ IdleApp /\ IdleCn /\ IdleAvatar /\ IdleQuery /\ IdleCard /\ IdleForm /\ IdleGuard /\ IdleTdd /\ IdleCounter /\ IdleKeys /\ IdleFetcher /\ IdleMq /\ IdleUsers /\ IdleSteps /\ IdleLogo /\ IdleGrp

SpecSync == InitSyncSpec /\ [][NextSync]_vars

\* The TDD workflow from any assessed state of the tests.
InitTddSpec == InitTdd /\ IdleApp /\ IdleCn /\ IdleAvatar /\ IdleQuery /\ IdleCard /\ IdleForm /\ IdleGuard /\ IdleSync /\ IdleCounter /\ IdleKeys /\ IdleFetcher /\ IdleMq /\ IdleUsers /\ IdleSteps /\ IdleLogo /\ IdleGrp

SpecTdd == InitTddSpec /\ [][NextTdd]_vars

\* The counter of App: clicks and renders in any order.
InitCounterSpec == InitCounter /\ IdleApp /\ IdleCn /\ IdleAvatar /\ IdleQuery /\ IdleCard /\ IdleForm /\ IdleGuard /\ IdleSync /\ IdleTdd /\ IdleKeys /\ IdleFetcher /\ IdleMq /\ IdleUsers /\ IdleSteps /\ IdleLogo /\ IdleGrp

SpecCounter == InitCounterSpec /\ [][NextCounter]_vars

\* The key factory: queries fetched and invalidated by key.
InitKeysSpec == InitKeys /\ IdleApp /\ IdleCn /\ IdleAvatar /\ IdleQuery /\ IdleCard /\ IdleForm /\ IdleGuard /\ IdleSync /\ IdleTdd /\ IdleCounter /\ IdleFetcher /\ IdleMq /\ IdleUsers /\ IdleSteps /\ IdleLogo /\ IdleGrp

SpecKeys == InitKeysSpec /\ [][NextKeys]_vars

\* The raw fetcher: calls of fetchUser and their responses.
InitFetcherSpec == InitFetcher /\ IdleApp /\ IdleCn /\ IdleAvatar /\ IdleQuery /\ IdleCard /\ IdleForm /\ IdleGuard /\ IdleSync /\ IdleTdd /\ IdleCounter /\ IdleKeys /\ IdleMq /\ IdleUsers /\ IdleSteps /\ IdleLogo /\ IdleGrp

SpecFetcher == InitFetcherSpec /\ [][NextFetcher]_vars

\* useMediaQuery: the hook, its effect and the media queries.
InitMqSpec == InitMq /\ IdleApp /\ IdleCn /\ IdleAvatar /\ IdleQuery /\ IdleCard /\ IdleForm /\ IdleGuard /\ IdleSync /\ IdleTdd /\ IdleCounter /\ IdleKeys /\ IdleFetcher /\ IdleUsers /\ IdleSteps /\ IdleLogo /\ IdleGrp

SpecMq == InitMqSpec /\ [][NextMq]_vars

\* The search params of /users: validation and the link Next page.
InitUsersSpec == InitUsers /\ IdleApp /\ IdleCn /\ IdleAvatar /\ IdleQuery /\ IdleCard /\ IdleForm /\ IdleGuard /\ IdleSync /\ IdleTdd /\ IdleCounter /\ IdleKeys /\ IdleFetcher /\ IdleMq /\ IdleSteps /\ IdleLogo /\ IdleGrp

SpecUsers == InitUsersSpec /\ [][NextUsers]_vars

\* The multi-step form: handleNextStep and the validation it awaits.
InitStepsSpec == InitSteps /\ IdleApp /\ IdleCn /\ IdleAvatar /\ IdleQuery /\ IdleCard /\ IdleForm /\ IdleGuard /\ IdleSync /\ IdleTdd /\ IdleCounter /\ IdleKeys /\ IdleFetcher /\ IdleMq /\ IdleUsers /\ IdleLogo /\ IdleGrp

SpecSteps == InitStepsSpec /\ [][NextSteps]_vars

\* HeaderCompanyLogo rendered with bounded props.
InitLogoSpec == InitLogo /\ IdleApp /\ IdleCn /\ IdleAvatar /\ IdleQuery /\ IdleCard /\ IdleForm /\ IdleGuard /\ IdleSync /\ IdleTdd /\ IdleCounter /\ IdleKeys /\ IdleFetcher /\ IdleMq /\ IdleUsers /\ IdleSteps /\ IdleGrp

SpecLogo == InitLogoSpec /\ [][NextLogo]_vars

\* cn() applied to two class lists, flat and nested.
InitGrpSpec == InitGrp /\ IdleApp /\ IdleCn /\ IdleAvatar /\ IdleQuery /\ IdleCard /\ IdleForm /\ IdleGuard /\ IdleSync /\ IdleTdd /\ IdleCounter /\ IdleKeys /\ IdleFetcher /\ IdleMq /\ IdleUsers /\ IdleSteps /\ IdleLogo

SpecGrp == InitGrpSpec /\ [][NextGrp]_vars

---------------------------------------------------------------------------
(* Properties of the application shell                                     *)

PageShown ==
    /\ "Page" \in screen.visible
    /\ screen.content.component \in {"IndexPage", "DashboardPage"}

DashboardShown == "Page" \in screen.visible /\ screen.content = DashboardPage

\* C1: whenever a page component is on screen it is rendered below the
\* <main> outlet of AppLayout, and the same screen shows the header (brand
\* section first, then the user avatar) and the sidebar.
C1_PageInsideShell ==
    PageShown =>
        /\ "Page" \in Descendants("main")
        /\ "main" \in Descendants("AppLayout")
        /\ {"Header", "HeaderBrand", "HeaderUserAvatar", "AppSidebar", "main"}
               \subseteq screen.visible
        /\ Len(Children("Header")) = 2
        /\ "HeaderBrand" \in Descendants(Children("Header")[1])
        /\ "HeaderUserAvatar" \in Descendants(Children("Header")[2])
        /\ screen.caughtBy = "none"

\* C1 witness: the lazily loaded dashboard page is on screen inside the shell.
C1_Witness ==
    /\ DashboardShown
    /\ location = "/dashboard"
    /\ {"Header", "AppSidebar"} \subseteq screen.visible

\* C2: the rendered sidebar menu has exactly one item per entry of navItems,
\* with pairwise distinct keys, the 'Home' item leads to '/', and right
\* after an item was activated the current route is that item's `to`.
C2_NavItemNavigates ==
    /\ "AppSidebar" \in screen.visible =>
          LET menu == screen.sidebar.menu
          IN  /\ Len(menu) = Len(navItems)
              /\ \A i \in DOMAIN menu :
                    /\ menu[i].to = navItems[i].to
                    /\ menu[i].key = navItems[i].to
                    /\ menu[i].label = navItems[i].label
                    /\ menu[i].label = "Home" => menu[i].to = "/"
              /\ \A i, j \in DOMAIN menu : i # j => menu[i].key # menu[j].key
              /\ \E i \in DOMAIN menu : menu[i].label = "Home"
    /\ event.kind = "link" =>
          /\ location = event.arg
          /\ \E i \in DOMAIN navItems : navItems[i].to = event.arg

\* C2 witness: the Home item was activated while the dashboard route was
\* matched, and the route is now '/'.
C2_Witness ==
    /\ event = Event("link", "/")
    /\ location = "/"
    /\ "/dashboard" \in visited

\* C3 (as stated): the module is requested only after '/dashboard' was
\* matched, DashboardPage is never on screen before the import resolved,
\* and once the import has resolved DashboardPage is eventually on screen.
C3_LazyAsStated ==
    /\ [](chunk # "idle" => "/dashboard" \in visited)
    /\ [](DashboardShown => chunk = "resolved")
    /\ (chunk = "resolved") ~> DashboardShown

\* C3 (amended): as above, but DashboardPage is eventually on screen only
\* as long as '/dashboard' stays the matched route.
C3_LazyWhileMatched ==
    /\ [](chunk # "idle" => "/dashboard" \in visited)
    /\ [](DashboardShown => chunk = "resolved")
    /\ (chunk = "resolved" /\ location = "/dashboard")
           ~> (DashboardShown \/ location # "/dashboard")

\* C3 witness: the import has resolved and DashboardPage is on screen.
C3_Witness ==
    /\ chunk = "resolved"
    /\ DashboardShown
    /\ event.kind = "render"

\* C5: whenever DashboardPage is on screen it shows the four stat cards
\* Total Scans, Critical Findings, Providers Connected, Last Scan in this
\* order, keyed by their pairwise distinct labels, and then the panel
\* 'No recent findings to display.'.
C5_DashboardStatic ==
    screen.content.component = "DashboardPage" =>
        LET cards == screen.content.cards
        IN  /\ [i \in DOMAIN cards |-> cards[i].label]
                 = <<"Total Scans", "Critical Findings", "Providers Connected", "Last Scan">>
            /\ [i \in DOMAIN cards |-> cards[i].value] = <<"128", "14", "5", "2h ago">>
            /\ \A i \in DOMAIN cards : cards[i].key = cards[i].label
            /\ \A i, j \in DOMAIN cards : i # j => cards[i].key # cards[j].key
            /\ screen.content.panel = "No recent findings to display."

\* C5 witness: DashboardPage is on screen after the user collapsed the
\* sidebar and the page was rendered again.
C5_Witness ==
    /\ screen.content.component = "DashboardPage"
    /\ screen.sidebar.icon = "ChevronDoubleRightIcon"
    /\ "/" \in visited

\* C7: an error thrown while a route component is loaded or rendered is
\* caught by a boundary of the router, never by a component of the
\* repository, whose only boundary is a Suspense.
C7_ErrorsDelegated ==
    /\ screen.caughtBy \notin RepoNodes
    /\ \A n \in RepoNodes \cap Mounted : BoundaryKind(n) # "catch"
    /\ (event.kind = "throw" \/ screen.content.component = "error") =>
          screen.caughtBy \in {"Router.CatchBoundary", "Match.CatchBoundary"}
    /\ screen.caughtBy # "none" => Descendants(screen.caughtBy) \cap screen.visible = {}

\* C7 witness: the import of the dashboard module was rejected and the
\* error reached the router's boundary around the match.
C7_Witness ==
    /\ chunk = "rejected"
    /\ screen.caughtBy = "Match.CatchBoundary"
    /\ event.kind = "render"

---------------------------------------------------------------------------
(* Properties of cn()                                                      *)

\* The classes given to cn(), in order, each with the index of its argument.
GivenClasses(args) ==
    UNION {{<<i, k>> : k \in DOMAIN args[i].classes} :
               i \in {j \in DOMAIN args : args[j].kind = "string"}}

Before(p, q) == p[1] < q[1] \/ (p[1] = q[1] /\ p[2] < q[2])

ClassKey(c) == <<ClassInfo(c).variant, ClassInfo(c).group>>

\* C6: cn(v1..vn) drops the falsy values and keeps, of the classes given,
\* exactly those that no later Tailwind class overrides: at most one class
\* per conflict group (and variant), the last one given, an earlier class
\* of the group being dropped; and at the call sites of Header,
\* HeaderSection, HeaderBrand and HeaderDivider the class of a group that
\* survives is the caller's, never the component's default.
C6_CnLaterWins ==
    cnOut.called =>
        LET args == cnCall.args
            out == cnOut.value
            given == GivenClasses(args)
            At(p) == args[p[1]].classes[p[2]]
        IN  /\ Range(out) = {At(p) : p \in {q \in given :
                   ~IsTailwind(At(q)) \/
                   \A r \in given : Before(q, r) /\ IsTailwind(At(r)) =>
                       /\ ClassKey(At(r)) # ClassKey(At(q))
                       /\ ClassInfo(At(q)).variant = ClassInfo(At(r)).variant =>
                             ClassInfo(At(q)).group
                                \notin ConflictingGroups(ClassInfo(At(r)).group)}}
            /\ (\A i \in DOMAIN args : args[i].classes = <<>>) => out = <<>>
            /\ \A i, j \in DOMAIN out :
                  i # j /\ IsTailwind(out[i]) => ClassKey(out[i]) # ClassKey(out[j])
            /\ \A p, q \in given :
                  /\ Before(p, q)
                  /\ IsTailwind(At(p))
                  /\ ClassKey(At(p)) = ClassKey(At(q))
                  /\ \A r \in given : ClassKey(At(r)) = ClassKey(At(p)) => At(r) # At(p) \/ r = p
                  => At(p) \notin Range(out)
            /\ given # {} =>
                  \E p \in given : (\A q \in given : ~Before(p, q)) /\ At(p) \in Range(out)
            /\ cnCall.site \in HeaderSites /\ args[2].kind = "string" =>
                  \A d \in Range(args[1].classes), c \in Range(args[2].classes) :
                      IsTailwind(c) /\ ClassKey(c) = ClassKey(d) =>
                          \A x \in Range(out) :
                              ClassKey(x) = ClassKey(d) => x \in Range(args[2].classes)

\* C6 witness: Header was rendered with className 'px-2' and the default
\* 'px-6' is gone while the other defaults stay.
C6_Witness ==
    /\ cnCall.site = "Header"
    /\ cnCall.args[2] = Str(<<"dark:bg-black", "px-2">>)
    /\ cnOut.called
    /\ "px-2" \in Range(cnOut.value)
    /\ "px-6" \notin Range(cnOut.value)
    /\ "dark:bg-slate-950" \notin Range(cnOut.value)
    /\ "bg-white" \in Range(cnOut.value)

---------------------------------------------------------------------------
(* Properties of HeaderUserAvatar                                          *)

\* C4: for every (src, name) the trigger shows exactly one avatar: the image
\* with alt = name when src is a non-empty string, otherwise the initials
\* badge with getInitials(name); name is 'User' when omitted and the
\* aria-label of the trigger is 'User menu for <name>'.
C4_AvatarRendersProps ==
    avatarView.rendered =>
        LET src == avatarProps.src
            name == IF avatarProps.name = Undefined THEN <<"U", "s", "e", "r">>
                    ELSE avatarProps.name.value
            hasSrc == src.kind = "string" /\ Len(src.value) > 0
        IN  /\ Len(avatarView.children) = 1
            /\ avatarView.children[1].tag \in {"img", "div"}
            /\ hasSrc <=> avatarView.children[1].tag = "img"
            /\ hasSrc => /\ avatarView.children[1].src = src.value
                         /\ avatarView.children[1].alt = name
            /\ ~hasSrc => avatarView.children[1].text = getInitials(name)
            /\ avatarView.ariaLabel =
                  <<"U", "s", "e", "r", " ", "m", "e", "n", "u", " ", "f", "o", "r", " ">> \o name

\* C4 witness: rendered with src = '' and name omitted, the avatar is the
\* initials badge 'U' labelled 'User menu for User'.
C4_Witness ==
    /\ avatarView.rendered
    /\ avatarProps = [src |-> Given(<<>>), name |-> Undefined]
    /\ avatarView.children = <<InitialsBadge(<<"U">>)>>
    /\ avatarView.ariaLabel = UserMenuLabel(<<"U", "s", "e", "r">>)

---------------------------------------------------------------------------
(* Properties of the updateUser mutation                                   *)

\* C8: when the update mutation succeeds, in either form of the handler,
\* every cached user query (prefix userKeys.all()) other than the one
\* written is invalidated and the cache entry under the detail key of the
\* returned user's id holds the returned data.
C8_OnSuccessBothForms ==
    [][ (qMutation.status = "pending" /\ qMutation'.status = "success") =>
            LET data == qMutation'.data
                detailKey == userKeys.detail[data.id]
            IN  /\ \A k \in DOMAIN qCache :
                       IsPrefix(userKeys.all, k) /\ k # detailKey
                           => qCache'[k].isInvalidated
                /\ detailKey \in DOMAIN qCache'
                /\ qCache'[detailKey].data = data ]_vars

\* C8, failing state: the mutation { id: 'u1', name: 'n2' } has succeeded
\* with the tanstack-5 form of the handler, and the entry under
\* userKeys.detail('u1') still holds the name 'n1', marked invalidated.
C8_StaleDetail ==
    /\ qMutation.status = "success"
    /\ qMutation.form = "tanstack-5"
    /\ qMutation.data = User("u1", "n2")
    /\ userKeys.detail["u1"] \in DOMAIN qCache
    /\ qCache[userKeys.detail["u1"]] = [data |-> User("u1", "n1"), isInvalidated |-> TRUE]

---------------------------------------------------------------------------
(* Properties of the compound Card                                         *)

\* C9: useCard throws 'useCard must be used within <Card>' whenever the
\* context value is null and returns the context value otherwise; so
\* CardHeader and CardContent never render with a missing context.
C9_UseCardGuards ==
    cardView.rendered =>
        /\ ~cardProps.inCard <=> ~cardView.provided.present
        /\ \A sub \in {cardView.header, cardView.content} :
              /\ ~cardView.provided.present =>
                    /\ sub.threw
                    /\ sub.error = "useCard must be used within <Card>"
                    /\ ~sub.element
              /\ cardView.provided.present =>
                    /\ ~sub.threw
                    /\ sub.ctx = cardView.provided
              /\ sub.element => sub.ctx.present

\* C9 witness: the sub-components have been rendered outside a Card, and
\* useCard threw in both.
C9_Witness ==
    /\ cardView.rendered
    /\ ~cardProps.inCard
    /\ cardView.header.threw
    /\ cardView.content.threw
    /\ cardView.header.error = "useCard must be used within <Card>"

---------------------------------------------------------------------------
(* Properties of the form submission                                       *)

\* C10: in the async submission pattern form.reset() is called only right
\* after the API call has resolved; when the API call rejects the form is
\* not reset (its values stay, no reset is called) and the errors on
\* 'email' and on 'root' are set.
C10_ResetAfterResolve ==
    /\ [](\A i \in DOMAIN formLog :
              formLog[i] = "reset" => i > 1 /\ formLog[i - 1] = "resolved")
    /\ [][ (formSubmit.pc = "awaiting" /\ formSubmit'.last = "rejected"
                /\ formSubmit'.pc = "idle" /\ formSubmit.pattern = "tryCatch") =>
              /\ formState'.values = formState.values
              /\ formState'.errors.email # ""
              /\ formState'.errors.root # ""
              /\ \A i \in (DOMAIN formLog') \ (DOMAIN formLog) : formLog'[i] # "reset"
         ]_vars

\* C10 witness: the user typed an email, submitted with the tryCatch
\* pattern and the API call rejected: the value is kept, both errors are
\* set and reset was never called.
C10_Witness ==
    /\ formSubmit.pattern = "tryCatch"
    /\ formSubmit.last = "rejected"
    /\ formLog = <<"apiCall", "rejected", "setError email", "setError root">>
    /\ formState.values.email = "a@x.io"
    /\ formState.errors = [email |-> "This email is already taken",
                           root |-> "Something went wrong. Please try again."]

---------------------------------------------------------------------------
(* Properties of the authentication guard                                  *)

\* C11: a load of a route inside '/_auth' with context.auth.isAuthenticated
\* false redirects to '/login' with search.redirect = the requested href and
\* does not render the protected layout; with isAuthenticated true there is
\* no redirect; the layout is only ever rendered by a load that read true.
C11_AuthGuard ==
    /\ (guardLoad.requested \in ProtectedHrefs /\ guardLoad.context = Auth(FALSE)) =>
          /\ guardLoad.thrown = "redirect"
          /\ guardLocation = [pathname |-> "/login",
                              search |-> [redirect |-> guardLoad.requested]]
          /\ ~guardRendered.layout
    /\ (guardLoad.requested \in ProtectedHrefs /\ guardLoad.context = Auth(TRUE)) =>
          /\ guardLoad.thrown = "none"
          /\ guardLocation.pathname = Pathname(guardLoad.requested)
          /\ guardRendered.layout
    /\ guardRendered.layout => guardLoad.context = Auth(TRUE)

\* C11 witness: '/settings?tab=billing' was requested while signed out; the
\* location is '/login' with search.redirect = '/settings?tab=billing'.
C11_Witness ==
    /\ guardLoad.requested = "/settings?tab=billing"
    /\ guardLoad.context = Auth(FALSE)
    /\ guardLocation = [pathname |-> "/login",
                        search |-> [redirect |-> "/settings?tab=billing"]]
    /\ guardRendered = Matches(FALSE, "/login")

---------------------------------------------------------------------------
(* Properties of skill sync                                                *)

\* The table of file holds one row per action declared by every skill of
\* its scope, and no row of a skill whose action that skill does not declare.
InSync(file) ==
    /\ \A s \in Skills :
          ScopeOf(file) \in skillMeta[s].scope =>
              \A a \in skillMeta[s].auto_invoke : <<a, s>> \in agentsTables[file]
    /\ \A row \in agentsTables[file] :
          row[2] \in Skills => row[1] \in skillMeta[row[2]].auto_invoke

---------------------------------------------------------------------------
(* Properties of the TDD workflow                                          *)

---------------------------------------------------------------------------
(* Properties of the sidebar                                               *)

\* C14: whatever the toggles (trigger or rail), once rendered AppSidebar
\* shows the collapse icon with the header aligned to the end if and only
\* if the sidebar state is 'expanded', and the expand icon with the header
\* centered in every other state; exactly one of the two icons is shown.
C14_IconFollowsState ==
    (event.kind = "render" /\ "AppSidebar" \in screen.visible) =>
        LET shown == screen.sidebar
            collapseIcon == shown.icon = "ChevronDoubleLeftIcon"
            expandIcon == shown.icon = "ChevronDoubleRightIcon"
        IN  /\ collapseIcon # expandIcon
            /\ (collapseIcon /\ shown.justify = "justify-end") <=> sidebar = "expanded"
            /\ (expandIcon /\ shown.justify = "justify-center") <=> sidebar # "expanded"

\* C14 witness: the sidebar was collapsed through the rail and rendered:
\* the expand icon, centered.
C14_Witness ==
    /\ sidebar = "collapsed"
    /\ event.kind = "render"
    /\ "AppSidebar" \in screen.visible
    /\ screen.sidebar.icon = "ChevronDoubleRightIcon"
    /\ screen.sidebar.justify = "justify-center"

---------------------------------------------------------------------------
(* Properties of the counter                                               *)

\* C15: the counter starts at 0 and every click adds exactly 1: once the
\* clicks are rendered the button reads 'count is n' after n clicks, also
\* when several clicks were handled before the render.
C15_CountIsClicks ==
    /\ (counterView.rendered /\ counterClicks = 0) =>
          counterView.button = <<"count is ", 0>>
    /\ (counterView.rendered /\ counterState.queue = <<>>) =>
          counterView.button = <<"count is ", counterClicks>>
    /\ counterState.value + Len(counterState.queue) = counterClicks

\* C15 witness: three clicks were handled, two of them before one render,
\* and the button reads 'count is 3'.
C15_Witness ==
    /\ counterClicks = 3
    /\ counterState.queue = <<>>
    /\ counterView.updates = 2
    /\ counterView.button = <<"count is ", 3>>

---------------------------------------------------------------------------
(* Properties of the Card, core pattern                                    *)

\* C16: in the core Card isExpanded is false at first and every click on
\* CardHeader flips it; in every render CardContent is rendered if and only
\* if isExpanded is true: once n clicks are rendered, the content is
\* visible iff n is odd.
C16_ContentIffOddClicks ==
    (cardProps.inCard /\ cardProps.form = "core") =>
        /\ Reduce(cardState) <=> cardState.clicks % 2 = 1
        /\ cardView.rendered =>
              /\ cardView.content.element <=> cardView.provided.isExpanded
              /\ cardState.clicks = 0 => ~cardView.provided.isExpanded
              /\ cardState.pending = 0 =>
                    (cardView.content.element <=> cardState.clicks % 2 = 1)

\* C16 witness: three clicks on the header of a core Card were rendered and
\* the content is visible.
C16_Witness ==
    /\ cardProps.inCard
    /\ cardProps.form = "core"
    /\ cardState.clicks = 3
    /\ cardState.pending = 0
    /\ cardView.content.element


\* C17: with the prop expanded defined, a toggle leaves the internal state
\* alone, the displayed isExpanded is the prop and onExpandedChange is
\* called with the negation of the prop; with expanded undefined, the
\* internal state starts at defaultExpanded, and a toggle flips it and
\* calls onExpandedChange once.
C17_ControlledVsUncontrolled ==
    /\ [](cardProps.inCard /\ cardProps.form = "controllable" =>
            /\ cardState.clicks = 0 => Reduce(cardState) = cardProps.defaultExpanded
            /\ cardView.rendered /\ cardProps.expanded # "undefined" =>
                  cardView.provided.isExpanded = (cardProps.expanded = "true")
            /\ cardView.rendered /\ cardProps.expanded = "undefined"
                                 /\ cardState.pending = 0 =>
                  cardView.provided.isExpanded = cardState.value)
    /\ [][cardProps.inCard /\ cardProps.form = "controllable"
            /\ cardState'.clicks = cardState.clicks + 1 =>
               IF cardProps.expanded # "undefined"
               THEN /\ cardState'.value = cardState.value
                    /\ cardState'.pending = cardState.pending
                    /\ cardCalls' = Append(cardCalls, ~(cardProps.expanded = "true"))
               ELSE /\ Reduce(cardState') = ~Reduce(cardState)
                    /\ Len(cardCalls') = Len(cardCalls) + 1]_vars

\* C17 witness: a Card with defaultExpanded false was toggled once with
\* expanded = true (the call carries false, the internal state stays false)
\* and once with expanded undefined (the call carries true, the internal
\* state becomes true).
C17_Witness ==
    /\ cardProps.inCard
    /\ cardProps.form = "controllable"
    /\ cardProps.expanded = "undefined"
    /\ ~cardProps.defaultExpanded
    /\ cardState = [value |-> TRUE, pending |-> 0, clicks |-> 2]
    /\ cardCalls = <<FALSE, TRUE>>
    /\ cardView.content.element


\* C18: in the uncontrolled Card the value a toggle passes to
\* onExpandedChange is the internal expanded state that results from that
\* toggle, also when toggle is called twice before Card renders again.
C18_CallEqualsResult ==
    [][cardProps.inCard /\ cardProps.form = "controllable"
         /\ cardProps.expanded = "undefined"
         /\ cardState'.clicks = cardState.clicks + 1 =>
            cardCalls' = Append(cardCalls, Reduce(cardState'))]_vars

\* C18 witness: two toggles of one render of an uncontrolled Card both
\* passed true to onExpandedChange, and the internal state that results
\* from the second is false.
C18_StaleCall ==
    /\ cardProps.inCard
    /\ cardProps.form = "controllable"
    /\ cardProps.expanded = "undefined"
    /\ cardState.pending = 2
    /\ cardCalls = <<TRUE, TRUE>>
    /\ Reduce(cardState) = FALSE


---------------------------------------------------------------------------
(* Properties of the key factory                                           *)

\* C19: every key of userKeys.lists, list, details and detail starts with
\* userKeys.all() = ['users']; every list key starts with lists() and every
\* detail key with details(); no list key is a detail key, and detail is
\* injective. So invalidating by all() marks every cached user query, and
\* invalidating by lists() leaves every detail query as it was.
C19_KeyFactory ==
    /\ [](/\ userKeys.all = <<"users">>
          /\ \A k \in FactoryKeys : IsPrefix(userKeys.all, k)
          /\ \A k \in ListKeys : IsPrefix(userKeys.lists, k)
          /\ \A k \in DetailKeys : IsPrefix(userKeys.details, k)
          /\ ListKeys \cap DetailKeys = {}
          /\ \A a, b \in IdValues : userKeys.detail[a] = userKeys.detail[b] => a = b)
    /\ [][kEvent'.op = "invalidateQueries" =>
            /\ DOMAIN kCache' = DOMAIN kCache
            /\ kEvent'.queryKey = userKeys.all =>
                   \A k \in DOMAIN kCache : kCache'[k].isInvalidated
            /\ kEvent'.queryKey = userKeys.lists =>
                   /\ \A k \in DOMAIN kCache \cap DetailKeys : kCache'[k] = kCache[k]
                   /\ \A k \in DOMAIN kCache \cap ListKeys : kCache'[k].isInvalidated]_vars

\* C19 witness: lists() was invalidated while the list with the filters
\* "detail" and the details of "list" and "u1" were cached: the list is
\* invalidated, both details are still fresh.
C19_Witness ==
    /\ kEvent = [op |-> "invalidateQueries", queryKey |-> userKeys.lists]
    /\ {userKeys.list["detail"], userKeys.detail["list"], userKeys.detail["u1"]}
           \subseteq DOMAIN kCache
    /\ kCache[userKeys.list["detail"]].isInvalidated
    /\ ~kCache[userKeys.detail["list"]].isInvalidated
    /\ ~kCache[userKeys.detail["u1"]].isInvalidated


---------------------------------------------------------------------------
(* Properties of the raw fetcher                                           *)

\* C20: whenever the response is not ok, fetchUser(id) throws
\* Error('Failed to fetch user <id>') and returns no value; when the
\* response is ok it returns res.json(), the parsed JSON body; the outcome
\* of a call depends on its own id and response only, whatever the calls
\* before it or in flight with it.
C20_FetchUser ==
    LET answered == {i \in DOMAIN fetchCalls : fetchCalls[i].res # NoResponse}
    IN  /\ \A i \in answered :
               LET call == fetchCalls[i]
               IN  IF ~ok(call.res)
                   THEN /\ call.promise.state = "rejected"
                        /\ call.promise.error =
                               <<"Error", <<"Failed to fetch user ", call.id>>>>
                        /\ call.promise.value = NoValue
                   ELSE /\ call.promise = json(call.res)
                        /\ call.res.body = UserJson =>
                               /\ call.promise.state = "fulfilled"
                               /\ call.promise.value.id = "u1"
                               /\ call.promise.value.name = "n1"
        /\ \A i, j \in answered :
               fetchCalls[i].id = fetchCalls[j].id /\ fetchCalls[i].res = fetchCalls[j].res
                   => fetchCalls[i].promise = fetchCalls[j].promise

\* C20 witness: two calls for u1; the one answered with 404 and a JSON
\* body threw, the one answered with 200 returned the parsed body.
C20_Witness ==
    /\ Len(fetchCalls) = 2
    /\ fetchCalls[1].id = "u1"
    /\ fetchCalls[1].res = Response(200, UserJson)
    /\ fetchCalls[1].promise = Fulfilled([kind |-> "object", id |-> "u1", name |-> "n1"])
    /\ fetchCalls[2].id = "u1"
    /\ fetchCalls[2].res = Response(404, UserJson)
    /\ fetchCalls[2].promise = Rejected("Error", <<"Failed to fetch user ", "u1">>)


---------------------------------------------------------------------------
(* Properties of useMediaQuery                                             *)

\* C21: useMediaQuery has exactly one change listener once its effect has
\* run and never more than one; when the query changes the listener on the
\* previous MediaQueryList is removed before the new one is added; after
\* unmount no listener is left; after a change event the listener heard,
\* the value returned by the next render is the event's matches.
C21_OneListener ==
    /\ Total(mqListeners) <= 1
    /\ mqHook.mounted /\ mqHook.phase = "idle" =>
           /\ mqListeners[mqHook.query] = 1
           /\ mqHook.effect = mqHook.query
    /\ mqHook.phase = "cleaned" => Total(mqListeners) = 0
    /\ ~mqHook.mounted => Total(mqListeners) = 0
    /\ mqHook.mounted /\ mqHook.heard # "none" =>
           /\ mqHook.matches = (mqHook.heard = "true")
           /\ ~mqHook.dirty => mqHook.returned = (mqHook.heard = "true")

\* C21 witness: the hook was moved to the dark-scheme query, its listener is
\* there and nowhere else, and the value it returns is the one its listener
\* heard last, which is not what was returned at first.
C21_Witness ==
    /\ mqHook.mounted
    /\ mqHook.phase = "idle"
    /\ mqHook.query = "(prefers-color-scheme: dark)"
    /\ mqHook.previous = "(max-width: 768px)"
    /\ mqListeners = [q \in MediaQueries |->
                         IF q = "(prefers-color-scheme: dark)" THEN 1 ELSE 0]
    /\ mqHook.heard = "true"
    /\ mqEvent = "render"
    /\ mqHook.returned

\* C22: when the query argument changes, the value returned is
\* window.matchMedia(newQuery).matches, with no change event of the new
\* media query needed.
C22_FollowsNewQuery ==
    [][mqHook.mounted /\ mqHook'.mounted /\ mqHook'.query # mqHook.query =>
          mqHook'.returned = mqEnv'[mqHook'.query]]_vars

\* C22 witness: the hook has just rendered with a new query that matches
\* and returns false, the value of the previous query.
C22_StaleAfterQueryChange ==
    /\ mqEvent = "query"
    /\ mqHook.mounted
    /\ mqEnv[mqHook.query]
    /\ ~mqHook.returned


---------------------------------------------------------------------------
(* Properties of the search params of /users                               *)

\* C23: the validated page is an integer >= 1, and is 1 when the URL has no
\* page; the link Next page increases page by exactly 1 and leaves q and
\* status as they were.
C23_PageAndNextPage ==
    /\ [](usersSearch.success =>
             /\ usersSearch.data.page.kind = "integer"
             /\ usersSearch.data.page.number >= 1
             /\ usersUrl.page = Absent => usersSearch.data.page.number = 1)
    /\ [][usersEvent' = "next" =>
             /\ usersSearch'.success
             /\ usersSearch'.data.page.number = usersSearch.data.page.number + 1
             /\ usersSearch'.data.q = usersSearch.data.q
             /\ usersSearch'.data.status = usersSearch.data.status]_vars

\* C23 witness: Next page was followed on /users?q=bob&status=inactive:
\* page is 2, q and status are still there.
C23_Witness ==
    /\ usersEvent = "next"
    /\ usersSearch.success
    /\ usersSearch.data =
           [page |-> Integer(2), q |-> String("bob"), status |-> String("inactive")]


---------------------------------------------------------------------------
(* Properties of the multi-step form                                       *)

\* C24: handleNextStep leaves the step unchanged when the validation of the
\* current step's fields fails, and every call whose validation succeeds
\* advances the step by exactly one, also with two calls in flight at the
\* same time.
C24_EachValidCallAdvances ==
    [][\A i \in DOMAIN stepCalls :
          stepCalls[i].status = "pending" /\ stepCalls'[i].status = "done" =>
              IF stepCalls'[i].valid
              THEN Current(stepState') = Current(stepState) + 1
              ELSE Current(stepState') = Current(stepState)]_vars

\* C24 witness: two calls made on step 1 were in flight together, both
\* validated, and the step is 2.
C24_TwoCallsOneStep ==
    /\ Len(stepCalls) = 2
    /\ \A i \in {1, 2} :
           stepCalls[i] = [step |-> 1, fields |-> 1, status |-> "done", valid |-> TRUE]
    /\ stepState = [value |-> 2, queue |-> <<>>]
    /\ stepView = 2


---------------------------------------------------------------------------
(* Properties of the avatar dropdown                                       *)

\* C25: for every src and name the dropdown of the avatar offers exactly
\* Profile, Settings, Sign out, in that order; when an item is selected,
\* 'Sign out' included, the dropdown closes and neither the route nor any
\* other state of the application changes.
C25_ItemsWithoutHandlers ==
    /\ [](avatarView.rendered => avatarView.items = <<"Profile", "Settings", "Sign out">>)
    /\ [][avatarMenu.open /\ ~avatarMenu'.open =>
             /\ UNCHANGED <<location, chunk, visited, sidebar, screen, event, matchSuspense>>
             /\ UNCHANGED <<avatarProps, avatarView>>
             /\ UNCHANGED notAvatarVars]_vars

\* C25 witness: 'Sign out' is the item selected last, the dropdown is
\* closed, the route is still /dashboard and the sidebar is collapsed.
C25_Witness ==
    /\ avatarView.rendered
    /\ avatarMenu = [open |-> FALSE, selected |-> "Sign out"]
    /\ location = "/dashboard"
    /\ sidebar = "collapsed"


---------------------------------------------------------------------------
(* Properties of the shell across navigation                               *)

\* C26: a navigation between '/' and '/dashboard' (a link of the sidebar or
\* the URL) leaves the state of the sidebar unchanged, and toggling the
\* sidebar leaves the route unchanged: SidebarProvider is above the outlet.
C26_SidebarKeptAcrossNavigation ==
    /\ []("SidebarProvider" \in Descendants("AppLayout")
            /\ "Outlet" \in Descendants("SidebarProvider")
            /\ "Page" \in Descendants("Outlet"))
    /\ [][/\ event'.kind \in {"link", "url"} => sidebar' = sidebar
          /\ event'.kind = "toggle" =>
                /\ location' = location
                /\ visited' = visited
                /\ chunk' = chunk]_vars

\* C26 witness: after a navigation from '/' to '/dashboard' the shell is
\* rendered with the dashboard page and the collapsed sidebar.
C26_Witness ==
    /\ location = "/dashboard"
    /\ visited = {"/", "/dashboard"}
    /\ sidebar = "collapsed"
    /\ event.kind = "render"
    /\ screen.content = DashboardPage
    /\ screen.sidebar = AppSidebar("collapsed")

---------------------------------------------------------------------------
(* Properties of HeaderCompanyLogo                                         *)

\* C28: HeaderCompanyLogo renders the <img> with the given src and alt
\* (default 'Company logo') when src is a non-empty string and otherwise the
\* building placeholder labelled with alt, never both; the other props of
\* the caller reach the rendered element in both branches.
C28_LogoAndProps ==
    logoView # NoElement =>
        LET alt == IF logoProps.alt = "undefined" THEN "Company logo" ELSE logoProps.alt
            hasSrc == logoProps.src \notin {"undefined", ""}
        IN  /\ hasSrc <=> logoView.tag = "img"
            /\ ~hasSrc <=> logoView.tag = "div"
            /\ hasSrc => /\ logoView.src = logoProps.src
                         /\ logoView.alt = alt
                         /\ logoView.children = <<>>
            /\ ~hasSrc => logoView.children = <<[tag |-> "svg", ariaLabel |-> alt]>>
            /\ logoView.props = logoProps.rest

\* C28 witness: rendered with src = '', alt = 'Acme' and the props id and
\* onClick, the logo is the placeholder labelled 'Acme' and its <div> has
\* neither id nor onClick.
C28_PlaceholderDropsProps ==
    /\ logoProps.src = ""
    /\ logoProps.alt = "Acme"
    /\ logoProps.rest = {"id", "onClick"}
    /\ logoView.tag = "div"
    /\ logoView.children = <<BuildingIcon("Acme")>>
    /\ logoView.props = {}


---------------------------------------------------------------------------
(* Properties of nested calls of cn()                                      *)

\* The (variant, group) pairs a class claims when it is kept.
Claims(c) ==
    IF ~IsTailwind(c) THEN {}
    ELSE {ClassKey(c)}
           \cup {<<ClassInfo(c).variant, g>> : g \in ConflictingGroups(ClassInfo(c).group)}

Overrides(later, earlier) == IsTailwind(earlier) /\ ClassKey(earlier) \in Claims(later)

\* A class that overrides another also overrides what that one overrides.
TransitiveConflicts(classes) ==
    \A x, y, z \in classes : Overrides(y, x) /\ Overrides(z, y) => Overrides(z, x)

\* C29 (as stated): for all class lists a and b, cn(cn(a, b)) = cn(a, b)
\* and cn(cn(a), b) = cn(a, b).
C29_GroupingAsStated ==
    grpOut.evaluated =>
        /\ grpOut.again = grpOut.flat
        /\ grpOut.nested = grpOut.flat

\* C29 (amended): cn(cn(a, b)) = cn(a, b), the result keeping at most one
\* class per (variant, group); cn(cn(a), b) = cn(a, b) when the conflicts
\* among the classes of a and b are transitive; in general cn(cn(a), b)
\* holds only classes of cn(a, b).
C29_GroupingWhenTransitive ==
    grpOut.evaluated =>
        /\ grpOut.again = grpOut.flat
        /\ \A i, j \in DOMAIN grpOut.flat :
               i # j /\ IsTailwind(grpOut.flat[i]) =>
                   ClassKey(grpOut.flat[i]) # ClassKey(grpOut.flat[j])
        /\ TransitiveConflicts(Range(grpArgs.a) \cup Range(grpArgs.b)) =>
               grpOut.nested = grpOut.flat
        /\ Range(grpOut.nested) \subseteq Range(grpOut.flat)

\* C29 witness: a = 'overflow-x-auto overflow-hidden', b = 'line-clamp-2':
\* cn(a, b) keeps overflow-x-auto, cn(cn(a), b) is 'line-clamp-2' alone.
C29_Witness ==
    /\ grpArgs = [a |-> <<"overflow-x-auto", "overflow-hidden">>, b |-> <<"line-clamp-2">>]
    /\ grpOut.evaluated
    /\ grpOut.flat = <<"overflow-x-auto", "line-clamp-2">>
    /\ grpOut.again = grpOut.flat
    /\ grpOut.nested = <<"line-clamp-2">>

====
